---- MODULE Spec2Model ----
(***************************************************************************)
(* A model of the gbnesmulator core: the 6502 run loop (src/src/cpu.rs),   *)
(* the bus (src/src/bus.rs) and the PPU timing core (src/src/ppu/mod.rs).  *)
(*                                                                         *)
(* The machine is one value, `cpu`, shaped like the Rust ownership tree:   *)
(* CPU { registers, bus: Bus { cpu_vram, prg_rom, cycles, ppu: NesPPU } }. *)
(* Every Rust method is an operator that takes the structure it borrows    *)
(* mutably and returns the structure after the call.                       *)
(***************************************************************************)
EXTENDS Integers, Sequences, FiniteSets, TLC

VARIABLES
    cpu,        \* the CPU and, through cpu.bus, the bus and the PPU
    pc_loc,     \* position in run_with_callback: "poll" (line 644) or "fetch" (line 647)
    cpu0,       \* the machine as it was constructed (to state round trips)
    nmi_taken,  \* history: NMIs serviced since the last frame callback
    nmi_total,  \* history: NMIs serviced since reset
    nmi_rearm,  \* history: 0->1 writes of ctrl bit 7 under VBlank since reset
    tick_sum,   \* history: the sum of the n of every bus.tick(n) issued directly on the bus
    io          \* history: what the host did on the bus (joypad, RAM and PPU register drivers)

vars == <<cpu, pc_loc, cpu0, nmi_taken, nmi_total, nmi_rearm, tick_sum, io>>

----------------------------------------------------------------------------
(* Bounds of the model *)

\* bus-level runs (SpecBus) stop after this many CPU cycles: two frames and a bit
MaxBusCycles == 60000

\* program runs (Spec) start no instruction after this many CPU cycles: one
\* frame (29781 cycles) and the start of the next
MaxRunCycles == 30500
MaxOpsCycles == 8

----------------------------------------------------------------------------
(* Bytes, words and single-bit flags *)

Byte == 0..255

wrapping_add8(a, b) == (a + b) % 256
wrapping_sub8(a, b) == (a - b + 256) % 256
wrapping_add16(a, b) == (a + b) % 65536

\* (v & flag) > 0 for a one-bit mask
has_bit(v, flag) == (v \div flag) % 2 = 1
\* v |= flag  /  v &= !flag for a one-bit mask
with_bit(v, flag, value) ==
    IF value THEN (IF has_bit(v, flag) THEN v ELSE v + flag)
             ELSE (IF has_bit(v, flag) THEN v - flag ELSE v)

\* a & b and a | b on unsigned integers
RECURSIVE BitAnd(_, _)
BitAnd(a, b) ==
    IF a = 0 \/ b = 0 THEN 0
    ELSE (a % 2) * (b % 2) + 2 * BitAnd(a \div 2, b \div 2)

RECURSIVE BitOr(_, _)
BitOr(a, b) ==
    IF a = 0 THEN b
    ELSE IF b = 0 THEN a
    ELSE (IF a % 2 = 1 \/ b % 2 = 1 THEN 1 ELSE 0) + 2 * BitOr(a \div 2, b \div 2)

\* a ^ b on unsigned integers
RECURSIVE BitXor(_, _)
BitXor(a, b) ==
    IF a = 0 THEN b
    ELSE IF b = 0 THEN a
    ELSE (IF a % 2 # b % 2 THEN 1 ELSE 0) + 2 * BitXor(a \div 2, b \div 2)

\* Option<u8>: None is the empty sequence, Some(x) the sequence <<x>>
None == <<>>
Some(x) == <<x>>

----------------------------------------------------------------------------
(* PPU registers: src/src/ppu/registers *)

VramAddIncrement == 4
GenerateNMI == 128
VBlankStarted == 128
SpriteZeroHit == 64

\* 262 scanlines of 341 dots
DotsPerScanline == 341
ScanlinesPerFrame == 262
VBlankScanline == 241

----------------------------------------------------------------------------
(* NesPPU: src/src/ppu/mod.rs *)

ScrollRegister_new == [scroll_x |-> 0, scroll_y |-> 0, latch |-> FALSE]
scroll_reset_latch(scroll) == [scroll EXCEPT !.latch = FALSE]

scroll_write(scroll, data) ==
    [(IF ~scroll.latch THEN [scroll EXCEPT !.scroll_x = data]
                       ELSE [scroll EXCEPT !.scroll_y = data])
        EXCEPT !.latch = ~scroll.latch]

\* AddrRegister: a 14-bit address written high byte first; hi_ptr is the latch
AddrRegister_new == [value |-> 0, hi_ptr |-> TRUE]
addr_update(addr, data) ==
    [value |-> IF addr.hi_ptr THEN (data % 64) * 256 + (addr.value % 256)
               ELSE (addr.value \div 256) * 256 + data,
     hi_ptr |-> ~addr.hi_ptr]
addr_increment(addr, inc) == [addr EXCEPT !.value = (addr.value + inc) % 16384]
addr_reset_latch(addr) == [addr EXCEPT !.hi_ptr = TRUE]

\* A byte array that is zero except where `cells` says otherwise
cell(cells, i) == IF i \in DOMAIN cells THEN cells[i] ELSE 0
store(cells, i, v) ==
    IF v = 0 THEN [j \in DOMAIN cells \ {i} |-> cells[j]]
    ELSE [j \in DOMAIN cells \cup {i} |-> IF j = i THEN v ELSE cells[j]]

PaletteSize == 32
VramSize == 2048
OamSize == 256

\* NesPPU::new; `panicked` says that a panic! or an index out of bounds
\* inside the PPU has aborted the process
NesPPU_new(chr_rom, mirroring) ==
    [chr_rom |-> chr_rom, palette_table |-> <<>>, vram |-> <<>>,
     oam_addr |-> 0, oam_data |-> <<>>, addr |-> AddrRegister_new,
     mirroring |-> mirroring, ctrl |-> 0, mask |-> 0, status |-> 0,
     scroll |-> ScrollRegister_new, internal_data_buf |-> 0,
     scanline |-> 0, cycles |-> 0, nmi_interrupt |-> None, panicked |-> FALSE]

ppu_panic(ppu) == [ppu EXCEPT !.panicked = TRUE]

ppu_get_flag(ppu, flag) == has_bit(ppu.ctrl, flag)
ppu_get_status(ppu, flag) == has_bit(ppu.status, flag)
ppu_set_status(ppu, flag, value) ==
    [ppu EXCEPT !.status = with_bit(ppu.status, flag, value)]

\* Mutant: the dot counter restarts at 0 on a scanline wrap (dots are lost)
NesPPU_tick_drops_dots(ppu, cycles) ==
    LET p1 == [ppu EXCEPT !.cycles = ppu.cycles + cycles] IN
    IF p1.cycles >= DotsPerScanline
    THEN LET p2 == [p1 EXCEPT !.cycles = 0, !.scanline = p1.scanline + 1]
             p3 == IF p2.scanline = VBlankScanline
                   THEN LET q == ppu_set_status(p2, VBlankStarted, TRUE)
                        IN IF ppu_get_flag(q, GenerateNMI)
                           THEN [q EXCEPT !.nmi_interrupt = Some(1)]
                           ELSE q
                   ELSE p2
         IN IF p3.scanline >= ScanlinesPerFrame
            THEN [ppu |-> ppu_set_status(
                              [p3 EXCEPT !.scanline = 0, !.nmi_interrupt = None],
                              VBlankStarted, FALSE),
                  ret |-> TRUE]
            ELSE [ppu |-> p3, ret |-> FALSE]
    ELSE [ppu |-> p1, ret |-> FALSE]

\* Mutant: the NMI is latched at VBlank entry whatever the control register says
NesPPU_tick_nmi_always(ppu, cycles) ==
    LET p1 == [ppu EXCEPT !.cycles = ppu.cycles + cycles] IN
    IF p1.cycles >= DotsPerScanline
    THEN LET p2 == [p1 EXCEPT !.cycles = p1.cycles - DotsPerScanline,
                              !.scanline = p1.scanline + 1]
             p3 == IF p2.scanline = VBlankScanline
                   THEN [ppu_set_status(p2, VBlankStarted, TRUE)
                            EXCEPT !.nmi_interrupt = Some(1)]
                   ELSE p2
         IN IF p3.scanline >= ScanlinesPerFrame
            THEN [ppu |-> ppu_set_status(
                              [p3 EXCEPT !.scanline = 0, !.nmi_interrupt = None],
                              VBlankStarted, FALSE),
                  ret |-> TRUE]
            ELSE [ppu |-> p3, ret |-> FALSE]
    ELSE [ppu |-> p1, ret |-> FALSE]

\* NesPPU::tick: the PPU after `cycles` dots, and the value returned
NesPPU_tick(ppu, cycles) ==
    LET p1 == [ppu EXCEPT !.cycles = ppu.cycles + cycles] IN
    IF p1.cycles >= DotsPerScanline
    THEN LET p2 == [p1 EXCEPT !.cycles = p1.cycles - DotsPerScanline,
                              !.scanline = p1.scanline + 1]
             p3 == IF p2.scanline = VBlankScanline
                   THEN LET q == ppu_set_status(
                                     ppu_set_status(p2, VBlankStarted, TRUE),
                                     SpriteZeroHit, FALSE)
                        IN IF ppu_get_flag(q, GenerateNMI)
                           THEN [q EXCEPT !.nmi_interrupt = Some(1)]
                           ELSE q
                   ELSE p2
         IN IF p3.scanline >= ScanlinesPerFrame
            THEN [ppu |-> ppu_set_status(
                              ppu_set_status(
                                  [p3 EXCEPT !.scanline = 0, !.nmi_interrupt = None],
                                  SpriteZeroHit, FALSE),
                              VBlankStarted, FALSE),
                  ret |-> TRUE]
            ELSE [ppu |-> p3, ret |-> FALSE]
    ELSE [ppu |-> p1, ret |-> FALSE]

\* poll_nmi_interrupt, had it read the pending NMI without taking it
poll_nmi_interrupt_keeps(ppu) == [ppu |-> ppu, ret |-> ppu.nmi_interrupt]

\* NesPPU::poll_nmi_interrupt: Option::take
poll_nmi_interrupt(ppu) ==
    [ppu |-> [ppu EXCEPT !.nmi_interrupt = None], ret |-> ppu.nmi_interrupt]

write_to_ctrl(ppu, value) ==
    LET before_nmi == ppu_get_flag(ppu, GenerateNMI)
        p1 == [ppu EXCEPT !.ctrl = value]
    IN IF ~before_nmi /\ ppu_get_flag(p1, GenerateNMI)
          /\ ppu_get_status(p1, VBlankStarted)
       THEN [p1 EXCEPT !.nmi_interrupt = Some(1)]
       ELSE p1

write_to_mask(ppu, value) == [ppu EXCEPT !.mask = value]

\* The mask-flag accessors of NesPPU: both work on the control byte
get_mask(ppu, flag) == has_bit(ppu.ctrl, flag)
set_mask(ppu, flag, value) ==
    [ppu EXCEPT !.ctrl = with_bit(ppu.ctrl, flag, value)]

\* read_status: the byte before the read; VBlank is cleared by the read
read_status_keeps_latch(ppu) ==
    LET p1 == ppu_set_status(ppu, VBlankStarted, FALSE) IN
    [ppu |-> [p1 EXCEPT !.scroll = scroll_reset_latch(p1.scroll)],
     ret |-> ppu.status]

read_status(ppu) ==
    LET p1 == ppu_set_status(ppu, VBlankStarted, FALSE) IN
    [ppu |-> [p1 EXCEPT !.addr = addr_reset_latch(p1.addr),
                        !.scroll = scroll_reset_latch(p1.scroll)],
     ret |-> ppu.status]

write_to_oam_addr(ppu, value) == [ppu EXCEPT !.oam_addr = value]
write_to_oam_data(ppu, value) ==
    [ppu EXCEPT !.oam_data = store(ppu.oam_data, ppu.oam_addr, value),
                !.oam_addr = wrapping_add8(ppu.oam_addr, 1)]
read_oam_data(ppu) == [ppu |-> ppu, ret |-> cell(ppu.oam_data, ppu.oam_addr)]
write_to_scroll(ppu, value) == [ppu EXCEPT !.scroll = scroll_write(ppu.scroll, value)]
write_to_ppu_addr(ppu, value) == [ppu EXCEPT !.addr = addr_update(ppu.addr, value)]

vram_addr_increment(ppu) == IF ~ppu_get_flag(ppu, VramAddIncrement) THEN 1 ELSE 32
increment_vram_addr(ppu) ==
    [ppu EXCEPT !.addr = addr_increment(ppu.addr, vram_addr_increment(ppu))]

mirror_vram_addr_always_vertical(ppu, addr) ==
    (BitAnd(addr, 12287) - 8192) % VramSize

mirror_vram_addr_one_table_down(ppu, addr) ==
    LET vram_index == BitAnd(addr, 12287) - 8192
        name_table == vram_index \div 1024
    IN CASE ppu.mirroring = "VERTICAL" /\ name_table \in {2, 3} -> vram_index - 2048
         [] ppu.mirroring = "HORIZONTAL" /\ name_table \in {1, 2, 3} -> vram_index - 1024
         [] OTHER -> vram_index

mirror_vram_addr(ppu, addr) ==
    LET vram_index == BitAnd(addr, 12287) - 8192
        name_table == vram_index \div 1024
    IN CASE ppu.mirroring = "VERTICAL" /\ name_table \in {2, 3} -> vram_index - 2048
         [] ppu.mirroring = "HORIZONTAL" /\ name_table \in {1, 2} -> vram_index - 1024
         [] ppu.mirroring = "HORIZONTAL" /\ name_table = 3 -> vram_index - 2048
         [] OTHER -> vram_index

\* 0x3F10, 0x3F14, 0x3F18, 0x3F1C
PaletteMirrors == {16144, 16148, 16152, 16156}

\* palette_table[i] = value; palette_table is a [u8; 32]
palette_store(ppu, i, value) ==
    IF i < PaletteSize
    THEN [ppu EXCEPT !.palette_table = store(ppu.palette_table, i, value)]
    ELSE ppu_panic(ppu)

write_to_data_no_alias(ppu, value) ==
    LET stored(addr) ==
            CASE addr <= 8191 -> ppu
              [] addr \in 8192..12287 ->
                    [ppu EXCEPT !.vram = store(ppu.vram, mirror_vram_addr(ppu, addr), value)]
              [] addr \in 12288..16127 -> ppu_panic(ppu)
              [] addr \in 16128..16383 -> palette_store(ppu, addr - 16128, value)
              [] OTHER -> ppu_panic(ppu)
        then(p) == IF p.panicked THEN p ELSE increment_vram_addr(p)
    IN then(stored(ppu.addr.value))

write_to_data(ppu, value) ==
    LET addr == ppu.addr.value
        stored == CASE addr <= 8191 -> ppu
                    [] addr \in 8192..12287 ->
                          [ppu EXCEPT !.vram = store(ppu.vram, mirror_vram_addr(ppu, addr), value)]
                    [] addr \in 12288..16127 -> ppu_panic(ppu)
                    [] addr \in PaletteMirrors -> palette_store(ppu, addr - 16 - 16128, value)
                    [] addr \in 16128..16383 -> palette_store(ppu, addr - 16128, value)
                    [] OTHER -> ppu_panic(ppu)
    IN IF stored.panicked THEN stored ELSE increment_vram_addr(stored)

\* array[i] on an array of `len` bytes: the byte, or an index out of bounds
indexed(ppu, cells, len, i) ==
    IF i < len THEN [ppu |-> ppu, ret |-> cell(cells, i)]
    ELSE [ppu |-> ppu_panic(ppu), ret |-> 0]

\* let result = internal_data_buf; internal_data_buf = array[i]; result
buffered(ppu, cells, len, i) ==
    IF i < len
    THEN [ppu |-> [ppu EXCEPT !.internal_data_buf = cell(cells, i)],
          ret |-> ppu.internal_data_buf]
    ELSE [ppu |-> ppu_panic(ppu), ret |-> 0]

read_data(ppu) ==
    LET addr == ppu.addr.value
        p1 == increment_vram_addr(ppu)
    IN CASE addr <= 8191 -> buffered(p1, ppu.chr_rom.image, ppu.chr_rom.len, addr)
         [] addr \in 8192..12287 ->
               buffered(p1, ppu.vram, VramSize, mirror_vram_addr(ppu, addr))
         [] addr \in 12288..16127 -> [ppu |-> ppu_panic(p1), ret |-> 0]
         [] addr \in PaletteMirrors ->
               indexed(p1, ppu.palette_table, PaletteSize, addr - 16 - 16128)
         [] addr \in 16128..16383 ->
               indexed(p1, ppu.palette_table, PaletteSize, addr - 16128)
         [] OTHER -> [ppu |-> ppu_panic(p1), ret |-> 0]

\* write_oam_dma: the 256 bytes of `data` (a sequence) from oam_addr on, in
\* order (the loop is split in halves)
RECURSIVE write_oam_dma(_, _)
write_oam_dma_from_zero(ppu, data) ==
    [ppu EXCEPT !.oam_data = [i \in {j \in 0..(Len(data) - 1) : data[j + 1] # 0} |-> data[i + 1]]]

write_oam_dma(ppu, data) ==
    IF Len(data) = 1 THEN write_to_oam_data(ppu, data[1])
    ELSE LET then(p) ==
                 IF p.panicked THEN p
                 ELSE write_oam_dma(p, SubSeq(data, Len(data) \div 2 + 1, Len(data)))
         IN then(write_oam_dma(ppu, SubSeq(data, 1, Len(data) \div 2)))

----------------------------------------------------------------------------
(* Bus: src/src/bus.rs *)

RAM_MIRRORS_END == 8191
PPU_REGISTERS_MIRRORS_END == 16383
RamMirrorSize == 2048
PrgBase == 32768
PrgBank == 16384

----------------------------------------------------------------------------
(* Joypad: src/src/joypad.rs *)

\* JoypadButton, in the order of the bits
JoypadButton == <<"ButtonA", "ButtonB", "Select", "Start", "Up", "Down", "Left", "Right">>
button_bit(button) == 2 ^ ((CHOOSE i \in DOMAIN JoypadButton : JoypadButton[i] = button) - 1)

Joypad_new == [strobe |-> FALSE, button_index |-> 0, button_status |-> 0]

Joypad_write_keeps_index(joypad, data) ==
    [joypad EXCEPT !.strobe = (data % 2 = 1)]

Joypad_write(joypad, data) ==
    [joypad EXCEPT !.strobe = (data % 2 = 1),
                   !.button_index = IF data % 2 = 1 THEN 0 ELSE joypad.button_index]

Joypad_read_always_advances(joypad) ==
    IF joypad.button_index > 7 THEN [joypad |-> joypad, ret |-> 1]
    ELSE [joypad |-> [joypad EXCEPT !.button_index = joypad.button_index + 1],
          ret |-> (joypad.button_status \div (2 ^ joypad.button_index)) % 2]

\* (button_status & (1 << button_index)) >> button_index
Joypad_read(joypad) ==
    IF joypad.button_index > 7 THEN [joypad |-> joypad, ret |-> 1]
    ELSE [joypad |-> IF ~joypad.strobe /\ joypad.button_index <= 7
                     THEN [joypad EXCEPT !.button_index = joypad.button_index + 1]
                     ELSE joypad,
          ret |-> (joypad.button_status \div (2 ^ joypad.button_index)) % 2]

set_button_pressed_status(joypad, button, pressed) ==
    [joypad EXCEPT !.button_status =
        with_bit(joypad.button_status, button_bit(button), pressed)]

----------------------------------------------------------------------------
(* Bus, continued *)

\* Bus::new; rom is the cartridge::Rom: prg_rom, chr_rom, screen_mirroring
Bus_new(rom) ==
    [cpu_vram |-> <<>>, prg_rom |-> rom.prg_rom,
     ppu |-> NesPPU_new(rom.chr_rom, rom.screen_mirroring), cycles |-> 0,
     callbacks |-> 0, joypad1 |-> Joypad_new, panicked |-> FALSE]

read_prg_rom(bus, a) ==
    LET off == a - PrgBase
        idx == IF bus.prg_rom.len = PrgBank /\ off >= PrgBank
               THEN off % PrgBank ELSE off
    IN cell(bus.prg_rom.image, idx)

\* Mutant: the PPU is advanced by n dots, not 3n
Bus_tick_one_dot_per_cycle(bus, cycles) ==
    LET r == NesPPU_tick(bus.ppu, cycles) IN
    [bus EXCEPT !.cycles = bus.cycles + cycles,
                !.ppu = r.ppu,
                !.callbacks = IF r.ret THEN bus.callbacks + 1 ELSE bus.callbacks]

\* Bus::tick: the APU is stepped first (it shares no state with the PPU),
\* then the PPU by 3n dots; a finished frame invokes the frame callback
Bus_tick(bus, cycles) ==
    LET r == NesPPU_tick(bus.ppu, (cycles * 3) % 256) IN
    [bus EXCEPT !.cycles = bus.cycles + cycles,
                !.ppu = r.ppu,
                !.callbacks = IF r.ret THEN bus.callbacks + 1 ELSE bus.callbacks]

Bus_poll_nmi_status(bus) ==
    LET r == poll_nmi_interrupt(bus.ppu) IN
    [bus |-> [bus EXCEPT !.ppu = r.ppu], ret |-> r.ret]

Panic(bus) == [bus EXCEPT !.panicked = TRUE]

\* the RAM cell an address of 0x0000-0x1FFF stands for: addr & 0b111_1111_1111
ram_mirror_down_12_bits(addr) == addr % (2 * RamMirrorSize)

ram_mirror_down(addr) == addr % RamMirrorSize

\* the PPU register a mirror address stands for: addr & 0b00100000_00000111,
\* which keeps bit 13 and bits 0-2
mirror_down_two_bits(a) == ((a \div 8192) % 2) * 8192 + (a % 4)

mirror_down(a) == ((a \div 8192) % 2) * 8192 + (a % 8)

\* the bus after a call into the PPU; a panic in the PPU aborts the process
with_ppu(bus, p) == [bus EXCEPT !.ppu = p, !.panicked = bus.panicked \/ p.panicked]
after_ppu(bus, r) == [bus |-> with_ppu(bus, r.ppu), ret |-> r.ret]

WriteOnlyPpuRegisters_without_scroll == {8192, 8193, 8195, 8198}

WriteOnlyPpuRegisters == {8192, 8193, 8195, 8197, 8198}

Bus_mem_read_open_bus(bus, a) ==
    LET m == IF a >= 8200 /\ a <= PPU_REGISTERS_MIRRORS_END THEN mirror_down(a) ELSE a IN
    CASE m <= RAM_MIRRORS_END -> [bus |-> bus, ret |-> cell(bus.cpu_vram, ram_mirror_down(m))]
      [] m \in WriteOnlyPpuRegisters \cup {16404} -> [bus |-> Panic(bus), ret |-> 0]
      [] m = 8194 -> after_ppu(bus, read_status(bus.ppu))
      [] m = 8196 -> after_ppu(bus, read_oam_data(bus.ppu))
      [] m = 8199 -> after_ppu(bus, read_data(bus.ppu))
      [] m = 16406 -> LET r == Joypad_read(bus.joypad1)
                      IN [bus |-> [bus EXCEPT !.joypad1 = r.joypad], ret |-> r.ret]
      [] m >= PrgBase -> [bus |-> bus, ret |-> read_prg_rom(bus, m)]
      [] OTHER -> [bus |-> bus, ret |-> m \div 256]

\* Bus::mem_read: the bus after the read and the byte read.  A mirror
\* address is read as the register it stands for; the APU registers
\* (0x4000-0x4015) hold no state of this model and read as 0
Bus_mem_read(bus, a) ==
    LET m == IF a >= 8200 /\ a <= PPU_REGISTERS_MIRRORS_END THEN mirror_down(a) ELSE a IN
    CASE m <= RAM_MIRRORS_END -> [bus |-> bus, ret |-> cell(bus.cpu_vram, ram_mirror_down(m))]
      [] m \in WriteOnlyPpuRegisters \cup {16404} -> [bus |-> Panic(bus), ret |-> 0]
      [] m = 8194 -> after_ppu(bus, read_status(bus.ppu))
      [] m = 8196 -> after_ppu(bus, read_oam_data(bus.ppu))
      [] m = 8199 -> after_ppu(bus, read_data(bus.ppu))
      [] m = 16406 -> LET r == Joypad_read(bus.joypad1)
                      IN [bus |-> [bus EXCEPT !.joypad1 = r.joypad], ret |-> r.ret]
      [] m >= PrgBase -> [bus |-> bus, ret |-> read_prg_rom(bus, m)]
      [] OTHER -> [bus |-> bus, ret |-> 0]

\* the reads of an OAM DMA, had they been taken from CPU RAM directly
dma_buffer_from_ram(bus, from, n) ==
    [bus |-> bus,
     ret |-> [i \in 1..n |-> cell(bus.cpu_vram, ram_mirror_down(from + i - 1))]]

\* the reads of an OAM DMA, buffer[i] = self.mem_read(hi + i): the bus after
\* the n reads from address `from` on, in order, and the bytes read (the
\* loop is split in halves)
RECURSIVE dma_buffer(_, _, _)
dma_buffer(bus, from, n) ==
    IF n = 1
    THEN LET one(r) == [bus |-> r.bus, ret |-> <<r.ret>>]
         IN one(Bus_mem_read(bus, from))
    ELSE LET join(first, second) == [bus |-> second.bus, ret |-> first.ret \o second.ret]
             then(first) ==
                 IF first.bus.panicked THEN first
                 ELSE join(first, dma_buffer(first.bus, from + (n \div 2), n - (n \div 2)))
         IN then(dma_buffer(bus, from, n \div 2))

\* Bus::mem_write; the APU registers (0x4000-0x4013, 0x4015, 0x4017) hold no
\* state of this model
Bus_mem_write(bus, a, data) ==
    LET m == IF a >= 8200 /\ a <= PPU_REGISTERS_MIRRORS_END THEN mirror_down(a) ELSE a IN
    CASE m <= RAM_MIRRORS_END ->
            [bus EXCEPT !.cpu_vram = store(bus.cpu_vram, ram_mirror_down(m), data)]
      [] m = 8192 -> with_ppu(bus, write_to_ctrl(bus.ppu, data))
      [] m = 8193 -> with_ppu(bus, write_to_mask(bus.ppu, data))
      [] m = 8194 -> Panic(bus)
      [] m = 8195 -> with_ppu(bus, write_to_oam_addr(bus.ppu, data))
      [] m = 8196 -> with_ppu(bus, write_to_oam_data(bus.ppu, data))
      [] m = 8197 -> with_ppu(bus, write_to_scroll(bus.ppu, data))
      [] m = 8198 -> with_ppu(bus, write_to_ppu_addr(bus.ppu, data))
      [] m = 8199 -> with_ppu(bus, write_to_data(bus.ppu, data))
      [] m = 16404 -> LET copy(r) == IF r.bus.panicked THEN r.bus
                                     ELSE with_ppu(r.bus, write_oam_dma(r.bus.ppu, r.ret))
                      IN copy(dma_buffer(bus, data * 256, 256))
      [] m = 16406 -> [bus EXCEPT !.joypad1 = Joypad_write(bus.joypad1, data)]
      [] m >= PrgBase -> Panic(bus)
      [] OTHER -> bus

----------------------------------------------------------------------------
(* CPU construction: src/src/cpu.rs *)

STACK == 256
STACK_RESET == 253

CPU_new(bus) ==
    [register_a |-> 0, register_x |-> 0, register_y |-> 0, status |-> 36,
     program_counter |-> 0, stack_pointer |-> STACK_RESET, bus |-> bus,
     trace |-> <<>>]

\* cartridge::Rom with `image` as PRG ROM and 8 KiB of zero CHR ROM
Cartridge(size, image, mirroring) ==
    [prg_rom |-> [len |-> size, image |-> image],
     chr_rom |-> [len |-> 8192, image |-> <<>>],
     screen_mirroring |-> mirroring]

EmptyRom == Cartridge(2 * PrgBank, <<>>, "HORIZONTAL")

\* StatusFlag
Carry == 1
Zero == 2
InterruptDisable == 4
DecimalMode == 8
Break == 16
Break2 == 32
Overflow == 64
Negative == 128

\* what the run loop did on the bus during the current step, in order
Ev(op, a, v) == [op |-> op, addr |-> a, data |-> v]
logged(self, e) == [self EXCEPT !.trace = Append(self.trace, e)]

\* impl Mem for CPU: every access goes to the bus
mem_read(self, a) ==
    LET result(r) ==
            [cpu |-> logged([self EXCEPT !.bus = r.bus], Ev("read", a, r.ret)),
             ret |-> r.ret]
    IN result(Bus_mem_read(self.bus, a))

mem_write(self, a, data) ==
    logged([self EXCEPT !.bus = Bus_mem_write(self.bus, a, data)], Ev("write", a, data))

mem_read_u16(self, pos) ==
    LET word(lo, hi) == [cpu |-> hi.cpu, ret |-> hi.ret * 256 + lo.ret]
        high(lo) == word(lo, mem_read(lo.cpu, wrapping_add16(pos, 1)))
    IN high(mem_read(self, pos))

bus_tick(self, cycles) ==
    logged([self EXCEPT !.bus = Bus_tick(self.bus, cycles)], Ev("tick", 0, cycles))

\* impl Stack for CPU
\* stack_pop, had it read the stack before moving the stack pointer
stack_pop_reads_first(self) ==
    LET up(v) == [cpu |-> [v.cpu EXCEPT !.stack_pointer = wrapping_add8(v.cpu.stack_pointer, 1)],
                  ret |-> v.ret]
    IN up(mem_read(self, STACK + self.stack_pointer))

stack_pop(self) ==
    LET top(s1) == mem_read(s1, STACK + s1.stack_pointer)
    IN top([self EXCEPT !.stack_pointer = wrapping_add8(self.stack_pointer, 1)])

\* stack_push, had the stack pointer stopped at 0 instead of wrapping
stack_push_saturating(self, data) ==
    LET down(s1) == [s1 EXCEPT !.stack_pointer =
                                   IF s1.stack_pointer = 0 THEN 0 ELSE s1.stack_pointer - 1]
    IN down(mem_write(self, STACK + self.stack_pointer, data))

stack_push(self, data) ==
    LET down(s1) == [s1 EXCEPT !.stack_pointer = wrapping_sub8(s1.stack_pointer, 1)]
    IN down(mem_write(self, STACK + self.stack_pointer, data))

\* stack_push_u16, had it pushed the low byte first
stack_push_u16_low_first(self, data) ==
    stack_push(stack_push(self, data % 256), data \div 256)

stack_push_u16(self, data) ==
    stack_push(stack_push(self, data \div 256), data % 256)

stack_pop_u16(self) ==
    LET word(lo, hi) == [cpu |-> hi.cpu, ret |-> hi.ret * 256 + lo.ret]
        high(lo) == word(lo, stack_pop(lo.cpu))
    IN high(stack_pop(self))

\* impl FlagArithmetic for CPU
get_flag(self, flag) == has_bit(self.status, flag)
set_flag(self, flag, value) == [self EXCEPT !.status = with_bit(self.status, flag, value)]
update_zero_and_negative_flags(self, result) ==
    set_flag(set_flag(self, Zero, result = 0), Negative, has_bit(result, 128))

\* AddressingMode, as far as the opcodes below use it
get_operand_address(self, mode) ==
    CASE mode = "Immediate" -> [cpu |-> self, ret |-> self.program_counter]
      [] mode = "ZeroPage" -> mem_read(self, self.program_counter)
      [] mode = "Absolute" -> mem_read_u16(self, self.program_counter)

\* let addr = self.get_operand_address(mode); let value = self.mem_read(addr);
read_operand(self, mode) ==
    LET value(a) == mem_read(a.cpu, a.ret)
    IN value(get_operand_address(self, mode))

add_to_register_a(self, data) ==
    LET sum == self.register_a + data + (IF get_flag(self, Carry) THEN 1 ELSE 0)
        result == sum % 256
        overflow == has_bit(data, 128) # has_bit(result, 128)
                    /\ has_bit(result, 128) # has_bit(self.register_a, 128)
    IN update_zero_and_negative_flags(
           [set_flag(set_flag(self, Carry, sum > 255), Overflow, overflow)
               EXCEPT !.register_a = result],
           result)

lda(self, mode) ==
    LET load(v) == update_zero_and_negative_flags([v.cpu EXCEPT !.register_a = v.ret], v.ret)
    IN load(read_operand(self, mode))

sta(self, mode) ==
    LET put(a) == mem_write(a.cpu, a.ret, a.cpu.register_a)
    IN put(get_operand_address(self, mode))

adc(self, mode) ==
    LET add(v) == add_to_register_a(v.cpu, v.ret)
    IN add(read_operand(self, mode))

\* sbc, had it added the two's complement of the operand
sbc_twos_complement(self, mode) ==
    LET sub(v) == add_to_register_a(v.cpu, wrapping_sub8(0, v.ret))
    IN sub(read_operand(self, mode))

\* (data as i8).wrapping_neg().wrapping_sub(1) as u8
sbc(self, mode) ==
    LET sub(v) == add_to_register_a(v.cpu, wrapping_sub8(wrapping_sub8(0, v.ret), 1))
    IN sub(read_operand(self, mode))

\* The read-modify-write instructions return the byte they wrote; no caller
\* below uses it, and the operators return the CPU alone.
and(self, mode) ==
    LET mask(v) == update_zero_and_negative_flags(
                       [v.cpu EXCEPT !.register_a = BitAnd(@, v.ret)],
                       BitAnd(v.cpu.register_a, v.ret))
    IN mask(read_operand(self, mode))

ora(self, mode) ==
    LET join(v) == update_zero_and_negative_flags(
                       [v.cpu EXCEPT !.register_a = BitOr(@, v.ret)],
                       BitOr(v.cpu.register_a, v.ret))
    IN join(read_operand(self, mode))

eor(self, mode) ==
    LET flip(v) == update_zero_and_negative_flags(
                       [v.cpu EXCEPT !.register_a = BitXor(@, v.ret)],
                       BitXor(v.cpu.register_a, v.ret))
    IN flip(read_operand(self, mode))

cmp(self, mode) ==
    LET compare(v) == update_zero_and_negative_flags(
                          set_flag(v.cpu, Carry, v.cpu.register_a >= v.ret),
                          wrapping_sub8(v.cpu.register_a, v.ret))
    IN compare(read_operand(self, mode))

ldx(self, mode) ==
    LET load(v) == update_zero_and_negative_flags([v.cpu EXCEPT !.register_x = v.ret], v.ret)
    IN load(read_operand(self, mode))

\* let addr = get_operand_address(mode); let data = mem_read(addr); then
\* the carry from `carry(data)` if the instruction sets it, f(data, old
\* carry) written back at addr, and Z and N from it
read_modify_write(self, mode, sets_carry, carry(_), f(_, _)) ==
    LET result(s1, data) == f(data, get_flag(s1, Carry))
        flags(s1, data) == IF sets_carry THEN set_flag(s1, Carry, carry(data)) ELSE s1
        put(s1, addr, data) ==
            update_zero_and_negative_flags(
                mem_write(flags(s1, data), addr, result(s1, data)),
                result(s1, data))
        fetch(a) == put(mem_read(a.cpu, a.ret).cpu, a.ret, mem_read(a.cpu, a.ret).ret)
    IN fetch(get_operand_address(self, mode))

high_bit(data) == data >= 128
low_bit(data) == data % 2 = 1
no_carry(data) == FALSE

asl(self, mode) ==
    LET shifted(data, old_carry) == (data * 2) % 256
    IN read_modify_write(self, mode, TRUE, high_bit, shifted)

lsr(self, mode) ==
    LET shifted(data, old_carry) == data \div 2
    IN read_modify_write(self, mode, TRUE, low_bit, shifted)

rol(self, mode) ==
    LET rotated(data, old_carry) == ((data * 2) % 256) + (IF old_carry THEN 1 ELSE 0)
    IN read_modify_write(self, mode, TRUE, high_bit, rotated)

ror(self, mode) ==
    LET rotated(data, old_carry) == (data \div 2) + (IF old_carry THEN 128 ELSE 0)
    IN read_modify_write(self, mode, TRUE, low_bit, rotated)

dec(self, mode) ==
    LET less(data, old_carry) == wrapping_sub8(data, 1)
    IN read_modify_write(self, mode, FALSE, no_carry, less)

inc(self, mode) ==
    LET more(data, old_carry) == wrapping_add8(data, 1)
    IN read_modify_write(self, mode, FALSE, no_carry, more)

\* Unofficial opcodes
lax(self, mode) ==
    LET load(v) == update_zero_and_negative_flags(
                       [v.cpu EXCEPT !.register_a = v.ret, !.register_x = v.ret], v.ret)
    IN load(read_operand(self, mode))

sax(self, mode) ==
    LET put(a) == mem_write(a.cpu, a.ret, BitAnd(a.cpu.register_a, a.cpu.register_x))
    IN put(get_operand_address(self, mode))

\* dcp, had it compared A with the byte before the decrement
dcp_compares_first(self, mode) ==
    LET compare(s1, addr, data) ==
            update_zero_and_negative_flags(
                set_flag(mem_write(s1, addr, wrapping_sub8(data, 1)), Carry,
                         s1.register_a >= data),
                wrapping_sub8(s1.register_a, data))
        fetch(a) == compare(mem_read(a.cpu, a.ret).cpu, a.ret, mem_read(a.cpu, a.ret).ret)
    IN fetch(get_operand_address(self, mode))

dcp(self, mode) ==
    LET compare(s1, addr, value) ==
            update_zero_and_negative_flags(
                set_flag(mem_write(s1, addr, value), Carry, s1.register_a >= value),
                wrapping_sub8(s1.register_a, value))
        fetch(a) == compare(mem_read(a.cpu, a.ret).cpu, a.ret,
                            wrapping_sub8(mem_read(a.cpu, a.ret).ret, 1))
    IN fetch(get_operand_address(self, mode))

isb(self, mode) ==
    LET subtract(s1, addr, value) ==
            add_to_register_a(mem_write(s1, addr, value),
                              wrapping_sub8(wrapping_sub8(0, value), 1))
        fetch(a) == subtract(mem_read(a.cpu, a.ret).cpu, a.ret,
                             wrapping_add8(mem_read(a.cpu, a.ret).ret, 1))
    IN fetch(get_operand_address(self, mode))

slo(self, mode) ==
    LET join(s1, addr, val) ==
            update_zero_and_negative_flags(
                [mem_write(set_flag(s1, Carry, val >= 128), addr, (val * 2) % 256)
                    EXCEPT !.register_a = BitOr(@, (val * 2) % 256)],
                BitOr(s1.register_a, (val * 2) % 256))
        fetch(a) == join(mem_read(a.cpu, a.ret).cpu, a.ret, mem_read(a.cpu, a.ret).ret)
    IN fetch(get_operand_address(self, mode))

\* rla: the flags are left as rol set them
rla(self, mode) ==
    LET mask(v) == [v.cpu EXCEPT !.register_a = BitAnd(@, v.ret)]
    IN mask(read_operand(rol(self, mode), mode))

sre(self, mode) ==
    LET flip(s1, addr, val) ==
            update_zero_and_negative_flags(
                [mem_write(set_flag(s1, Carry, val % 2 = 1), addr, val \div 2)
                    EXCEPT !.register_a = BitXor(@, val \div 2)],
                BitXor(s1.register_a, val \div 2))
        fetch(a) == flip(mem_read(a.cpu, a.ret).cpu, a.ret, mem_read(a.cpu, a.ret).ret)
    IN fetch(get_operand_address(self, mode))

rra(self, mode) ==
    LET add(v) == add_to_register_a(v.cpu, v.ret)
    IN add(read_operand(ror(self, mode), mode))

jump(v) == [v.cpu EXCEPT !.program_counter = v.ret]

\* BRK as a halt: the run loop ends at it
brk_halts(self) == [self EXCEPT !.bus.panicked = TRUE]

brk(self) ==
    LET push_pc(s1) == stack_push_u16(s1, s1.program_counter)
        push_status(s3) == stack_push(s3, s3.status)
    IN jump(mem_read_u16(
               push_status(set_flag(
                   push_pc([self EXCEPT !.program_counter =
                                            wrapping_add16(self.program_counter, 1)]),
                   Break, TRUE)),
               65534))

\* interrupt::NMI
NMI == [vector_addr |-> 65530, b_flag_mask |-> 32, cpu_cycles |-> 2]

\* CPU::interrupt.  `mask & 0b010000 == 1` compares a value that is 0 or 16
\* (0 or 32 on the next line) with 1, so neither branch is ever taken and
\* the byte pushed is the status register as it stands
interrupt(self, irq) ==
    LET flag1(flag) == IF BitAnd(irq.b_flag_mask, 16) = 1 THEN BitOr(flag, 16) ELSE flag
        flag2(flag) == IF BitAnd(irq.b_flag_mask, 32) = 1 THEN BitOr(flag, 32) ELSE flag
        push_flag(s1) == stack_push(s1, flag2(flag1(s1.status)))
    IN jump(mem_read_u16(
               bus_tick(
                   set_flag(push_flag(stack_push_u16(self, self.program_counter)),
                            InterruptDisable, TRUE),
                   irq.cpu_cycles),
               irq.vector_addr))

\* `offset as u16` sign-extends the i8
sign_extend(offset) == IF offset >= 128 THEN offset + 65280 ELSE offset

branch(self, condition) ==
    LET taken(v) == [v.cpu EXCEPT !.program_counter =
                        wrapping_add16(wrapping_add16(self.program_counter, 1),
                                       sign_extend(v.ret))]
    IN IF condition THEN taken(mem_read(self, self.program_counter)) ELSE self

\* reset that leaves the status register as it was
reset_keeps_status(self) ==
    jump(mem_read_u16([self EXCEPT !.register_a = 0, !.register_x = 0,
                                   !.register_y = 0,
                                   !.stack_pointer = STACK_RESET], 65532))

reset(self) ==
    jump(mem_read_u16([self EXCEPT !.register_a = 0, !.register_x = 0,
                                   !.register_y = 0,
                                   !.stack_pointer = STACK_RESET,
                                   !.status = 36], 65532))

\* BPL, BMI, BVC, BVS, BCC, BCS, BNE, BEQ
BranchOpcodes == {16, 48, 80, 112, 144, 176, 208, 240}

\* opcodes::OPCODES_MAP: length, base cycles and addressing mode
OpInfo(len, cycles, mode) == [len |-> len, cycles |-> cycles, mode |-> mode]
OPCODES_MAP ==
    (0 :> OpInfo(1, 7, "NoneAddressing")) @@ (8 :> OpInfo(1, 3, "NoneAddressing"))
    @@ (24 :> OpInfo(1, 2, "NoneAddressing")) @@ (40 :> OpInfo(1, 4, "NoneAddressing"))
    @@ (56 :> OpInfo(1, 2, "NoneAddressing")) @@ (64 :> OpInfo(1, 6, "NoneAddressing"))
    @@ (72 :> OpInfo(1, 3, "NoneAddressing")) @@ (76 :> OpInfo(3, 3, "NoneAddressing"))
    @@ (88 :> OpInfo(1, 2, "NoneAddressing")) @@ (104 :> OpInfo(1, 4, "NoneAddressing"))
    @@ (105 :> OpInfo(2, 2, "Immediate")) @@ (120 :> OpInfo(1, 2, "NoneAddressing"))
    @@ (133 :> OpInfo(2, 3, "ZeroPage")) @@ (141 :> OpInfo(3, 4, "Absolute"))
    @@ (165 :> OpInfo(2, 3, "ZeroPage")) @@ (169 :> OpInfo(2, 2, "Immediate"))
    @@ (173 :> OpInfo(3, 4, "Absolute")) @@ (233 :> OpInfo(2, 2, "Immediate"))
    @@ (234 :> OpInfo(1, 2, "NoneAddressing"))
    @@ (32 :> OpInfo(3, 6, "NoneAddressing")) @@ (96 :> OpInfo(1, 6, "NoneAddressing"))
    @@ (108 :> OpInfo(3, 5, "NoneAddressing"))
    @@ [code \in BranchOpcodes |-> OpInfo(2, 2, "NoneAddressing")]

\* the arms of the match of run_with_callback that are written in place
jmp_absolute(self) == jump(mem_read_u16(self, self.program_counter))

pla(self) ==
    LET load(v) == update_zero_and_negative_flags([v.cpu EXCEPT !.register_a = v.ret], v.ret)
    IN load(stack_pop(self))

plp(self) ==
    LET restore(v) == set_flag(set_flag([v.cpu EXCEPT !.status = v.ret], Break, FALSE),
                               Break2, TRUE)
    IN restore(stack_pop(self))

rti(self) == jump(stack_pop_u16(plp(self)))

\* jmp_indirect, had it read the pointer as a plain little-endian word
jmp_indirect_plain(self) ==
    LET indirect_ref(v) == mem_read_u16(v.cpu, v.ret)
    IN jump(indirect_ref(mem_read_u16(self, self.program_counter)))

\* 0x6C, with the page-wrap of the 6502: a pointer at 0x__FF takes its high
\* byte from 0x__00 of the same page
jmp_indirect(self) ==
    LET word(l, h) == [cpu |-> h.cpu, ret |-> h.ret * 256 + l.ret]
        same_page(l, addr) == word(l, mem_read(l.cpu, addr - 255))
        indirect_ref(v) == IF v.ret % 256 = 255
                           THEN same_page(mem_read(v.cpu, v.ret), v.ret)
                           ELSE mem_read_u16(v.cpu, v.ret)
    IN jump(indirect_ref(mem_read_u16(self, self.program_counter)))

\* 0x20
jsr(self) ==
    jump(mem_read_u16(
             stack_push_u16(self, wrapping_add16(self.program_counter, 1)),
             self.program_counter))

\* 0x60
rts(self) ==
    LET back(v) == [v.cpu EXCEPT !.program_counter = wrapping_add16(v.ret, 1)]
    IN back(stack_pop_u16(self))

\* the condition each branch opcode passes to CPU::branch
branch_condition(self, code) ==
    CASE code = 144 -> ~get_flag(self, Carry)
      [] code = 176 -> get_flag(self, Carry)
      [] code = 240 -> get_flag(self, Zero)
      [] code = 48 -> get_flag(self, Negative)
      [] code = 208 -> ~get_flag(self, Zero)
      [] code = 16 -> ~get_flag(self, Negative)
      [] code = 80 -> ~get_flag(self, Overflow)
      [] code = 112 -> get_flag(self, Overflow)

\* the match of run_with_callback, for the opcodes of OPCODES_MAP
dispatch(self, code, mode) ==
    CASE code \in {169, 165, 173} -> lda(self, mode)
      [] code = 105 -> adc(self, mode)
      [] code = 24 -> set_flag(self, Carry, FALSE)
      [] code = 88 -> set_flag(self, InterruptDisable, FALSE)
      [] code = 76 -> jmp_absolute(self)
      [] code = 234 -> self
      [] code = 72 -> stack_push(self, self.register_a)
      [] code = 8 -> stack_push(self, BitOr(self.status, 48))
      [] code = 104 -> pla(self)
      [] code = 40 -> plp(self)
      [] code = 64 -> rti(self)
      [] code = 233 -> sbc(self, mode)
      [] code = 56 -> set_flag(self, Carry, TRUE)
      [] code = 120 -> set_flag(self, InterruptDisable, TRUE)
      [] code \in {133, 141} -> sta(self, mode)
      [] code = 0 -> brk(self)
      [] code = 108 -> jmp_indirect(self)
      [] code = 32 -> jsr(self)
      [] code = 96 -> rts(self)
      [] code \in BranchOpcodes -> branch(self, branch_condition(self, code))

\* poll_and_service, had it treated the NMI as maskable by the I flag
poll_and_service_masked(self) ==
    LET polled(r) == IF r.ret # None /\ ~get_flag(self, InterruptDisable)
                     THEN interrupt([self EXCEPT !.bus = r.bus], NMI)
                     ELSE [self EXCEPT !.bus = r.bus]
    IN polled(Bus_poll_nmi_status(self.bus))

\* run_with_callback, line 644: take the pending NMI, if any, and service it
poll_and_service(self) ==
    LET polled(r) == IF r.ret # None
                     THEN interrupt([self EXCEPT !.bus = r.bus], NMI)
                     ELSE [self EXCEPT !.bus = r.bus]
    IN polled(Bus_poll_nmi_status(self.bus))

\* run_with_callback, lines 647-762: one instruction
run_instruction(self) ==
    LET advance(s3, program_counter_state, opcode) ==
            IF program_counter_state = s3.program_counter
            THEN [s3 EXCEPT !.program_counter =
                                wrapping_add16(s3.program_counter, opcode.len - 1)]
            ELSE s3
        execute(s1, code) ==
            IF code \notin DOMAIN OPCODES_MAP
            THEN [s1 EXCEPT !.bus = Panic(s1.bus)]
            ELSE advance(bus_tick(dispatch(s1, code, OPCODES_MAP[code].mode),
                                  OPCODES_MAP[code].cycles),
                         s1.program_counter, OPCODES_MAP[code])
        fetched(f) ==
            execute([f.cpu EXCEPT !.program_counter =
                                      wrapping_add16(f.cpu.program_counter, 1)],
                    f.ret)
    IN fetched(mem_read(self, self.program_counter))

\* Mem::mem_write_u16: low byte, then high byte
mem_write_u16(self, pos, data) ==
    mem_write(mem_write(self, pos, data % 256), pos + 1, data \div 256)

\* CPU::load: the program is written through the bus from 0x8000 on, then
\* 0x8600 at 0x1FFC; a write that panics ends it
RECURSIVE write_program(_, _, _)
write_program(self, program, i) ==
    IF i > Len(program) \/ self.bus.panicked THEN self
    ELSE write_program(mem_write(self, 32768 + (i - 1), program[i]), program, i + 1)

load(self, program) ==
    LET vector(s) == IF s.bus.panicked THEN s ELSE mem_write_u16(s, 8188, 34304)
    IN vector(write_program(self, program, 1))

\* CPU::run: n turns of the loop of run_with_callback, or fewer if one panics
RECURSIVE run(_, _)
run(self, n) ==
    IF n = 0 \/ self.bus.panicked THEN self
    ELSE run(run_instruction(poll_and_service(self)), n - 1)

\* CPU::load_and_run, with the first n turns of the loop
load_and_run(self, program, n) ==
    LET start(s) == IF s.bus.panicked THEN s
                    ELSE run(jump(mem_read_u16(reset(s), 65532)), n)
    IN start(load(self, program))

----------------------------------------------------------------------------
(* APU (apu/mod.rs).  The channels and the frame counter are kept as the  *)
(* number of times each of their methods has been called; the samples as  *)
(* the length of the buffer.                                              *)

\* the APU emits a sample when this many CPU cycles have been accumulated
CyclesPerSample == 40

Channels == {"pulse_0", "pulse_1", "triangle", "noise", "dmc"}

Channel_new ==
    [tick_sequencer |-> 0, tick_quarter_frame |-> 0, tick_half_frame |-> 0,
     update_pending_length_counter |-> 0]

\* frame_counter::FrameResult
FrameResults == {"None", "Quarter", "Half"}

APU_new ==
    [buffer |-> 0, executed_cycles |-> 0, frame_counter |-> [tick |-> 0],
     pulse_0 |-> Channel_new, pulse_1 |-> Channel_new, triangle |-> Channel_new,
     noise |-> Channel_new, dmc |-> Channel_new]

\* self.<unit>.<method>()
called(apu, unit, method) == [apu EXCEPT ![unit][method] = @ + 1]

RECURSIVE calls(_, _)
calls(apu, list) ==
    IF list = <<>> THEN apu
    ELSE calls(called(apu, list[1][1], list[1][2]), Tail(list))

\* APU::handle_frame_result
handle_frame_result(apu, result) ==
    CASE result = "Quarter" ->
            calls(apu, << <<"pulse_0", "tick_quarter_frame">>,
                          <<"pulse_1", "tick_quarter_frame">>,
                          <<"triangle", "tick_quarter_frame">> >>)
      [] result = "Half" ->
            calls(apu, << <<"pulse_0", "tick_quarter_frame">>,
                          <<"pulse_0", "tick_half_frame">>,
                          <<"pulse_1", "tick_quarter_frame">>,
                          <<"pulse_1", "tick_half_frame">>,
                          <<"triangle", "tick_quarter_frame">>,
                          <<"triangle", "tick_half_frame">>,
                          <<"noise", "tick_quarter_frame">>,
                          <<"noise", "tick_half_frame">> >>)
      [] OTHER -> apu

\* APU::tick; r is what self.frame_counter.tick() returns
APU_tick(apu, cpu_cycles, opcode_cycles, r) ==
    LET sequencers(a) ==
            IF cpu_cycles % 2 = 1
            THEN calls(a, << <<"pulse_0", "tick_sequencer">>,
                             <<"pulse_1", "tick_sequencer">>,
                             <<"noise", "tick_sequencer">>,
                             <<"dmc", "tick_sequencer">> >>)
            ELSE a
        frame(a) == handle_frame_result(called(a, "frame_counter", "tick"), r)
        pending(a) ==
            calls(a, << <<"pulse_0", "update_pending_length_counter">>,
                        <<"pulse_1", "update_pending_length_counter">>,
                        <<"triangle", "update_pending_length_counter">>,
                        <<"noise", "update_pending_length_counter">> >>)
        sampled(a) ==
            IF a.executed_cycles + opcode_cycles >= CyclesPerSample
            THEN [a EXCEPT !.buffer = @ + 1, !.executed_cycles = 0]
            ELSE [a EXCEPT !.executed_cycles = @ + opcode_cycles]
    IN sampled(pending(frame(sequencers(called(apu, "triangle", "tick_sequencer")))))

----------------------------------------------------------------------------
(* Envelope (apu/envelope.rs) *)

Envelope_new ==
    [counter |-> 0, level |-> 0,
     control |-> [constant_level |-> 0, decay_period |-> 0,
                  constant |-> FALSE, looping |-> FALSE],
     start |-> FALSE]

set_level(self, v) == [self EXCEPT !.level = v % 16, !.counter = self.control.decay_period]

\* Envelope::tick, had the level changed without the reload of the counter
Envelope_tick_no_reload(self) ==
    IF self.start THEN set_level([self EXCEPT !.start = FALSE], 15)
    ELSE IF self.counter > 0 THEN [self EXCEPT !.counter = @ - 1]
    ELSE IF self.level > 0 THEN [self EXCEPT !.level = @ - 1]
    ELSE IF self.control.looping THEN set_level(self, 15)
    ELSE self

Envelope_tick(self) ==
    IF self.start THEN set_level([self EXCEPT !.start = FALSE], 15)
    ELSE IF self.counter > 0 THEN [self EXCEPT !.counter = @ - 1]
    ELSE IF self.level > 0 THEN set_level(self, self.level - 1)
    ELSE IF self.control.looping THEN set_level(self, 15)
    ELSE self

Envelope_write_register(self, data) ==
    [self EXCEPT !.control = [constant_level |-> data % 16,
                              decay_period |-> data % 16,
                              constant |-> has_bit(data, 16),
                              looping |-> has_bit(data, 32)]]

Envelope_start(self) == [self EXCEPT !.start = TRUE]

Envelope_volume(self) ==
    IF self.control.constant THEN self.control.constant_level ELSE self.level

----------------------------------------------------------------------------
(* Spec: the machine of main(): CPU::new, reset, run, on a cartridge.  The *)
(* cartridge is the input; each one below is a reset routine at 0x8000, an *)
(* NMI routine at 0x9000 and a BRK routine at 0xA000, with the vectors.    *)

Place(base, bytes) == [i \in base..(base + Len(bytes) - 1) |-> bytes[i - base + 1]]

NmiRoutine == 4096
BrkRoutine == 8192

\* the vectors, little-endian: NMI 0x9000, RESET 0x8000, IRQ/BRK 0xA000
Vectors(size) == Place(size - 6, <<0, 144, 0, 128, 0, 160>>)

Rom(size, main, nmi, irq) ==
    Cartridge(size,
              Place(0, main) @@ Place(NmiRoutine, nmi) @@ Place(BrkRoutine, irq)
              @@ Vectors(size),
              "HORIZONTAL")

\* LDA #$80; STA $2000; l: JMP l
MainIdle == <<169, 128, 141, 0, 32, 76, 5, 128>>
\* l: JMP l, NMI generation never enabled
MainNoNmi == <<76, 0, 128>>
\* LDA #$80; STA $2000; CLI; BRK
MainBrk == <<169, 128, 141, 0, 32, 88, 0>>
\* LDA #$80; STA $2000; l: PHA; PHP; PLP; PLA; SEC; ADC #1; SBC #1; NOP; JMP l
MainStack == <<169, 128, 141, 0, 32, 72, 8, 40, 104, 56, 105, 1, 233, 1, 234, 76, 5, 128>>

\* RTI
NmiRti == <<64>>
\* LDA #0; STA $2000; LDA #$80; STA $2000; RTI
NmiRearm == <<169, 0, 141, 0, 32, 169, 128, 141, 0, 32, 64>>
\* LDA $2002; STA $10; LDA $10; CLC; SEI; RTI
NmiStatus == <<173, 2, 32, 133, 16, 165, 16, 24, 120, 64>>

\* l: JMP l
BrkLoop == <<76, 0, 160>>

Cartridges ==
    << Rom(2 * PrgBank, MainIdle, NmiRti, BrkLoop),
       Rom(PrgBank, MainIdle, NmiRti, BrkLoop),
       Rom(2 * PrgBank, MainIdle, NmiRearm, BrkLoop),
       Rom(2 * PrgBank, MainIdle, NmiStatus, BrkLoop),
       Rom(2 * PrgBank, MainNoNmi, NmiRti, BrkLoop),
       Rom(2 * PrgBank, MainBrk, NmiRti, BrkLoop),
       Rom(2 * PrgBank, MainStack, NmiRti, BrkLoop),
       Rom(2 * PrgBank, MainStack, NmiStatus, BrkLoop) >>

Init ==
    /\ \E k \in DOMAIN Cartridges :
           cpu = [reset(CPU_new(Bus_new(Cartridges[k]))) EXCEPT !.trace = <<>>]
    /\ cpu0 = cpu
    /\ pc_loc = "poll"
    /\ nmi_taken = 0
    /\ nmi_total = 0
    /\ nmi_rearm = 0
    /\ tick_sum = 0
    /\ io = <<>>

Running == ~cpu.bus.panicked /\ cpu.bus.cycles < MaxRunCycles

FrameEnded == cpu'.bus.callbacks # cpu.bus.callbacks

\* the writes of a step that turn the NMI-enable bit of the PPU control
\* register on while the VBlank flag is set (write_to_ctrl then latches an
\* NMI); p is the PPU before the step, whose only bus write this is
EnablesInVBlank(p, trace) ==
    {i \in DOMAIN trace :
        /\ trace[i].op = "write"
        /\ trace[i].addr = 8192
        /\ ~ppu_get_flag(p, GenerateNMI)
        /\ has_bit(trace[i].data, GenerateNMI)
        /\ ppu_get_status(p, VBlankStarted)}

\* line 644 with an NMI pending: it is taken and serviced
ServiceNMI ==
    /\ pc_loc = "poll"
    /\ Running
    /\ cpu.bus.ppu.nmi_interrupt # None
    /\ cpu' = poll_and_service([cpu EXCEPT !.trace = <<>>])
    /\ pc_loc' = "fetch"
    /\ nmi_taken' = IF FrameEnded THEN 0 ELSE nmi_taken + 1
    /\ nmi_total' = nmi_total + 1
    /\ UNCHANGED <<cpu0, nmi_rearm, tick_sum, io>>

\* line 644 with no NMI pending
NoNMI ==
    /\ pc_loc = "poll"
    /\ Running
    /\ cpu.bus.ppu.nmi_interrupt = None
    /\ cpu' = poll_and_service([cpu EXCEPT !.trace = <<>>])
    /\ pc_loc' = "fetch"
    /\ UNCHANGED <<cpu0, nmi_taken, nmi_total, nmi_rearm, tick_sum, io>>

\* lines 647-762: fetch, dispatch, tick, advance
Instruction ==
    /\ pc_loc = "fetch"
    /\ Running
    /\ cpu' = run_instruction([cpu EXCEPT !.trace = <<>>])
    /\ pc_loc' = "poll"
    /\ nmi_taken' = IF FrameEnded THEN 0 ELSE nmi_taken
    /\ nmi_rearm' = nmi_rearm + Cardinality(EnablesInVBlank(cpu.bus.ppu, cpu'.trace))
    /\ UNCHANGED <<cpu0, nmi_total, tick_sum, io>>

Next == ServiceNMI \/ NoNMI \/ Instruction

Spec == Init /\ [][Next]_vars

----------------------------------------------------------------------------
(* SpecBus: the bus driven directly, as the CPU drives it: any sequence of *)
(* bus.tick(n), writes of the PPU control register, reads of the PPU       *)
(* status register and polls of the pending NMI.                           *)

TickCycles == 1..8
CtrlValues == {0, GenerateNMI}

InitBus ==
    /\ cpu = CPU_new(Bus_new(EmptyRom))
    /\ cpu0 = cpu
    /\ pc_loc = "poll"
    /\ nmi_taken = 0
    /\ nmi_total = 0
    /\ nmi_rearm = 0
    /\ tick_sum = 0
    /\ io = <<>>

BusTick ==
    \E n \in TickCycles :
        /\ cpu.bus.cycles < MaxBusCycles
        /\ cpu' = [cpu EXCEPT !.bus = Bus_tick(cpu.bus, n)]
        /\ tick_sum' = tick_sum + n
        /\ UNCHANGED <<pc_loc, cpu0, nmi_taken, nmi_total, nmi_rearm, io>>

BusWriteCtrl ==
    \E v \in CtrlValues :
        /\ cpu' = [cpu EXCEPT !.bus = Bus_mem_write(cpu.bus, 8192, v)]
        /\ UNCHANGED <<pc_loc, cpu0, nmi_taken, nmi_total, nmi_rearm, tick_sum, io>>

BusReadStatus ==
    /\ cpu' = [cpu EXCEPT !.bus = Bus_mem_read(cpu.bus, 8194).bus]
    /\ UNCHANGED <<pc_loc, cpu0, nmi_taken, nmi_total, nmi_rearm, tick_sum, io>>

BusPollNmi ==
    /\ cpu' = [cpu EXCEPT !.bus = Bus_poll_nmi_status(cpu.bus).bus]
    /\ UNCHANGED <<pc_loc, cpu0, nmi_taken, nmi_total, nmi_rearm, tick_sum, io>>

NextBus == BusTick \/ BusWriteCtrl \/ BusReadStatus \/ BusPollNmi

SpecBus == InitBus /\ [][NextBus]_vars

----------------------------------------------------------------------------
(* SpecOps: the run loop on two-instruction programs at 0x8000, from every *)
(* register state drawn below: PHA; PLA, PHP; PLP and ADC #M; SBC #M, each *)
(* followed by l: JMP l.                                                   *)

PhaPla == <<72, 104, 76, 2, 128>>
PhpPlp == <<8, 40, 76, 2, 128>>
AdcSbc(m) == <<105, m, 233, m, 76, 4, 128>>

\* bit 5 of the status register is set in every state the CPU reaches:
\* CPU::new and reset set it, PLP and RTI force it
Statuses == {p \in Byte : has_bit(p, Break2)}

Loaded(main, a, p, s) ==
    [reset(CPU_new(Bus_new(Rom(2 * PrgBank, main, NmiRti, BrkLoop))))
        EXCEPT !.register_a = a, !.status = p, !.stack_pointer = s, !.trace = <<>>]

InitOps ==
    /\ \/ \E a \in Byte, s \in Byte, p \in {36, 247} : cpu = Loaded(PhaPla, a, p, s)
       \/ \E a \in {0, 255}, s \in Byte, p \in Statuses : cpu = Loaded(PhpPlp, a, p, s)
       \/ \E a \in Byte, m \in Byte : cpu = Loaded(AdcSbc(m), a, 37, STACK_RESET)
    /\ cpu0 = cpu
    /\ pc_loc = "poll"
    /\ nmi_taken = 0
    /\ nmi_total = 0
    /\ nmi_rearm = 0
    /\ tick_sum = 0
    /\ io = <<>>

OpsRunning == ~cpu.bus.panicked /\ cpu.bus.cycles < MaxOpsCycles

\* line 644
OpsPoll ==
    /\ pc_loc = "poll"
    /\ OpsRunning
    /\ cpu' = poll_and_service([cpu EXCEPT !.trace = <<>>])
    /\ pc_loc' = "fetch"
    /\ UNCHANGED <<cpu0, nmi_taken, nmi_total, nmi_rearm, tick_sum, io>>

\* lines 647-762
OpsInstruction ==
    /\ pc_loc = "fetch"
    /\ OpsRunning
    /\ cpu' = run_instruction([cpu EXCEPT !.trace = <<>>])
    /\ pc_loc' = "poll"
    /\ UNCHANGED <<cpu0, nmi_taken, nmi_total, nmi_rearm, tick_sum, io>>

NextOps == OpsPoll \/ OpsInstruction

SpecOps == InitOps /\ [][NextOps]_vars

----------------------------------------------------------------------------
(* SpecFlow: the run loop started, through the reset vector, at a JSR, a   *)
(* relative branch or an indirect JMP placed at `entry`.                   *)

At(addr, bytes) == Place(addr - PrgBase, bytes)

Started(entry, code, p, s) ==
    [reset(CPU_new(Bus_new(
         Cartridge(2 * PrgBank,
                   code @@ At(65530, <<0, 144, entry % 256, entry \div 256, 0, 160>>),
                   "HORIZONTAL"))))
        EXCEPT !.status = p, !.stack_pointer = s, !.trace = <<>>]

\* 0x8000, 0x80FD (the return address 0x80FF ends a page), 0x80FE
JsrSites == {32768, 33021, 33022}
\* 0x8000 and 0xFFF8, from where a forward branch wraps past 0xFFFF
BranchSites == {32768, 65528}
\* 0x9000, 0x907F, 0x90FE, 0x90FF
Pointers == {36864, 36991, 37118, 37119}

InitFlow ==
    /\ \/ \E x \in JsrSites, t \in {34816, 35071}, s \in {253, 1, 0} :
             cpu = Started(x, At(x, <<32, t % 256, t \div 256>>) @@ At(t, <<96>>), 36, s)
       \/ \E x \in JsrSites, s \in {253, 1, 0} :
             cpu = Started(x, At(x, <<32, (x + 1) % 256, (x + 1) \div 256>>), 36, s)
       \/ \E x \in BranchSites, code \in BranchOpcodes, d \in Byte, p \in {36, 231} :
             cpu = Started(x, At(x, <<code, d>>), p, STACK_RESET)
       \/ \E ptr \in Pointers, b \in {18, 52, 160} :
             cpu = Started(PrgBase,
                           At(PrgBase, <<108, ptr % 256, ptr \div 256>>)
                           @@ At(36864, <<b, b + 1>>) @@ At(36991, <<b + 2, b + 3>>)
                           @@ At(37118, <<b + 4, b + 5, b + 6>>),
                           36, STACK_RESET)
       \/ cpu = Started(PrgBase, At(PrgBase, <<108, 0, 144>>) @@ At(36864, <<1, 128>>),
                        36, STACK_RESET)
    /\ cpu0 = cpu
    /\ pc_loc = "poll"
    /\ nmi_taken = 0
    /\ nmi_total = 0
    /\ nmi_rearm = 0
    /\ tick_sum = 0
    /\ io = <<>>

SpecFlow == InitFlow /\ [][NextOps]_vars

----------------------------------------------------------------------------
(* The PPU of the machine *)

ppu == cpu.bus.ppu

----------------------------------------------------------------------------
(* The joypad port: the program writes and reads 0x4016 on the bus, the    *)
(* host sets buttons from the frame callback.                              *)

JOYPAD1 == 16406

\* at most this many reads are issued between two writes of the strobe
MaxJoyReads == 10

\* io.strobe: bit 0 of the last byte written (clear at construction);
\* io.reads: reads since the strobe was last set, or last pulsed (set then
\* cleared), or since construction; io.ret: what the last operation
\* returned, if it was a read; io.pressed: the buttons the host holds down
InitJoy ==
    /\ cpu = CPU_new(Bus_new(EmptyRom))
    /\ cpu0 = cpu
    /\ pc_loc = "poll"
    /\ nmi_taken = 0
    /\ nmi_total = 0
    /\ nmi_rearm = 0
    /\ tick_sum = 0
    /\ io = [strobe |-> FALSE, reads |-> 0, ret |-> None, pressed |-> {}]

JoyWrite ==
    \E data \in 0..3 :
        /\ cpu' = [cpu EXCEPT !.bus = Bus_mem_write(cpu.bus, JOYPAD1, data)]
        /\ io' = [io EXCEPT !.strobe = (data % 2 = 1),
                            !.reads = IF data % 2 = 1 \/ io.strobe THEN 0 ELSE io.reads,
                            !.ret = None]
        /\ UNCHANGED <<pc_loc, cpu0, nmi_taken, nmi_total, nmi_rearm, tick_sum>>

JoyRead ==
    /\ io.reads < MaxJoyReads
    /\ cpu' = [cpu EXCEPT !.bus = Bus_mem_read(cpu.bus, JOYPAD1).bus]
    /\ io' = [io EXCEPT !.reads = io.reads + 1,
                        !.ret = Some(Bus_mem_read(cpu.bus, JOYPAD1).ret)]
    /\ UNCHANGED <<pc_loc, cpu0, nmi_taken, nmi_total, nmi_rearm, tick_sum>>

JoySetButton ==
    \E i \in DOMAIN JoypadButton, pressed \in BOOLEAN :
        /\ cpu' = [cpu EXCEPT !.bus.joypad1 =
                       set_button_pressed_status(cpu.bus.joypad1, JoypadButton[i], pressed)]
        /\ io' = [io EXCEPT !.ret = None,
                            !.pressed = IF pressed THEN io.pressed \cup {JoypadButton[i]}
                                        ELSE io.pressed \ {JoypadButton[i]}]
        /\ UNCHANGED <<pc_loc, cpu0, nmi_taken, nmi_total, nmi_rearm, tick_sum>>

NextJoy == JoyWrite \/ JoyRead \/ JoySetButton

SpecJoy == InitJoy /\ [][NextJoy]_vars

----------------------------------------------------------------------------
(* CPU RAM on the bus: writes and reads of 0x0000-0x1FFF through every      *)
(* mirror, with writes of a PPU register between.                          *)

RamCells == {0, 291, 2047}
RamAddrs == {c + k * 2048 : c \in RamCells, k \in 0..3}
RamValues == {17, 34, 255}

\* io.last: for every RAM cell probed, the byte last written through any of
\* its addresses (0 before); io.wrote: the address last written; io.addr,
\* io.ret: the address and the result of the last operation, if a read
InitRam ==
    /\ cpu = CPU_new(Bus_new(EmptyRom))
    /\ cpu0 = cpu
    /\ pc_loc = "poll"
    /\ nmi_taken = 0
    /\ nmi_total = 0
    /\ nmi_rearm = 0
    /\ tick_sum = 0
    /\ io = [last |-> [c \in RamCells |-> 0], wrote |-> 0, addr |-> 0, ret |-> None]

RamWrite ==
    \E a \in RamAddrs \cup {8192}, data \in RamValues :
        /\ cpu' = [cpu EXCEPT !.bus = Bus_mem_write(cpu.bus, a, data)]
        /\ io' = [io EXCEPT !.last = IF a \in RamAddrs
                                     THEN [io.last EXCEPT ![a % 2048] = data]
                                     ELSE io.last,
                            !.wrote = a,
                            !.addr = 0,
                            !.ret = None]
        /\ UNCHANGED <<pc_loc, cpu0, nmi_taken, nmi_total, nmi_rearm, tick_sum>>

RamRead ==
    \E a \in RamAddrs :
        /\ cpu' = [cpu EXCEPT !.bus = Bus_mem_read(cpu.bus, a).bus]
        /\ io' = [io EXCEPT !.addr = a, !.ret = Some(Bus_mem_read(cpu.bus, a).ret)]
        /\ UNCHANGED <<pc_loc, cpu0, nmi_taken, nmi_total, nmi_rearm, tick_sum>>

NextRam == RamWrite \/ RamRead

SpecRam == InitRam /\ [][NextRam]_vars

----------------------------------------------------------------------------
(* The PPU registers on the bus: the program writes the scroll, address    *)
(* and data registers and reads the status and data registers, through     *)
(* 0x2000-0x2007 or through a mirror of them.                              *)

\* at most this many register accesses are made
MaxPpuOps == 6

\* the bus after the ticks that take the PPU into scanline 241: 27394 CPU
\* cycles are 82182 dots, 241 scanlines and 1 dot
InVBlank(bus) ==
    [bus EXCEPT !.cycles = 27394,
                !.ppu = [bus.ppu EXCEPT !.scanline = VBlankScanline, !.cycles = 1,
                                        !.status = VBlankStarted]]

\* the addresses used for register r, and the bytes written to it
PpuPorts(r) == {8192 + r, 16376 + r}
AddrBytes == {63, 0, 16, 32}
DataBytes == {102, 119}
PpuBytes(r) == CASE r = 6 -> AddrBytes [] r = 7 -> DataBytes [] OTHER -> {17}

\* the palette entry that the PPU address 0x3F00 + i stands for
palette_entry(i) == IF i \in {16, 20, 24, 28} THEN i - 16 ELSE i

\* io.ops: accesses made; io.op, io.reg, io.mirrored: the last access ("read"
\* or "write", the register, through a mirror or not); io.ret: what it
\* returned, if a read; io.addr0, io.status0: the address register and the
\* status byte before it; io.latches0: the address and scroll latches before
\* the last status read; io.fresh, io.since: the bytes written to the
\* address register since the last status read, while nothing else moved
\* the address; io.pal: for every palette entry the byte last written to it
\* through the data register; io.via: the address of the last such write
InitPpu ==
    /\ \/ cpu = CPU_new(Bus_new(Cartridge(2 * PrgBank, <<>>, "HORIZONTAL")))
       \/ cpu = CPU_new(InVBlank(Bus_new(Cartridge(2 * PrgBank, <<>>, "VERTICAL"))))
    /\ cpu0 = cpu
    /\ pc_loc = "poll"
    /\ nmi_taken = 0
    /\ nmi_total = 0
    /\ nmi_rearm = 0
    /\ tick_sum = 0
    /\ io = [ops |-> 0, op |-> "none", reg |-> 0, mirrored |-> FALSE, ret |-> None,
             addr0 |-> 0, status0 |-> 0, latches0 |-> <<>>, fresh |-> FALSE,
             since |-> <<>>, pal |-> [i \in 0..(PaletteSize - 1) |-> 0], via |-> 0]

PpuRunning == ~cpu.bus.panicked /\ io.ops < MaxPpuOps

PpuWrite ==
    /\ PpuRunning
    /\ \E r \in {5, 6, 7} : \E a \in PpuPorts(r), data \in PpuBytes(r) :
        /\ cpu' = [cpu EXCEPT !.bus = Bus_mem_write(cpu.bus, a, data)]
        /\ io' = [io EXCEPT
                    !.ops = io.ops + 1, !.op = "write", !.reg = r,
                    !.mirrored = (a # 8192 + r), !.ret = None,
                    !.addr0 = ppu.addr.value, !.status0 = ppu.status,
                    !.fresh = io.fresh /\ r # 7 /\ (r = 6 => Len(io.since) < 2),
                    !.since = IF r = 6 THEN Append(io.since, data) ELSE io.since,
                    !.pal = IF r = 7 /\ ppu.addr.value \in 16128..16159
                            THEN [io.pal EXCEPT ![palette_entry(ppu.addr.value - 16128)] = data]
                            ELSE io.pal,
                    !.via = IF r = 7 /\ ppu.addr.value \in 16128..16159
                            THEN ppu.addr.value ELSE io.via]
        /\ UNCHANGED <<pc_loc, cpu0, nmi_taken, nmi_total, nmi_rearm, tick_sum>>

PpuRead ==
    /\ PpuRunning
    /\ \E r \in {2, 7} : \E a \in PpuPorts(r) :
        /\ cpu' = [cpu EXCEPT !.bus = Bus_mem_read(cpu.bus, a).bus]
        /\ io' = [io EXCEPT
                    !.ops = io.ops + 1, !.op = "read", !.reg = r,
                    !.mirrored = (a # 8192 + r),
                    !.ret = Some(Bus_mem_read(cpu.bus, a).ret),
                    !.addr0 = ppu.addr.value, !.status0 = ppu.status,
                    !.latches0 = IF r = 2 THEN <<ppu.addr.hi_ptr, ppu.scroll.latch>>
                                 ELSE io.latches0,
                    !.fresh = (r = 2),
                    !.since = IF r = 2 THEN <<>> ELSE io.since]
        /\ UNCHANGED <<pc_loc, cpu0, nmi_taken, nmi_total, nmi_rearm, tick_sum>>

NextPpu == PpuWrite \/ PpuRead

SpecPpu == InitPpu /\ [][NextPpu]_vars

----------------------------------------------------------------------------
(* The nametable mapping as a function: one address of 0x2000-0x3EFF and    *)
(* one mirroring mode are drawn, and mirror_vram_addr is applied to them.  *)

Mirrorings == {"HORIZONTAL", "VERTICAL"}

\* io.addr: the address drawn; io.out: the VRAM index computed for it
InitNametable ==
    /\ \E mirroring \in Mirrorings :
           cpu = CPU_new(Bus_new(Cartridge(2 * PrgBank, <<>>, mirroring)))
    /\ cpu0 = cpu
    /\ pc_loc = "poll"
    /\ nmi_taken = 0
    /\ nmi_total = 0
    /\ nmi_rearm = 0
    /\ tick_sum = 0
    /\ \E addr \in 8192..16127 : io = [addr |-> addr, out |-> None]

MirrorVramAddr ==
    /\ io.out = None
    /\ io' = [io EXCEPT !.out = Some(mirror_vram_addr(ppu, io.addr))]
    /\ UNCHANGED <<cpu, pc_loc, cpu0, nmi_taken, nmi_total, nmi_rearm, tick_sum>>

NextNametable == MirrorVramAddr

SpecNametable == InitNametable /\ [][NextNametable]_vars

----------------------------------------------------------------------------
(* PPU memory through the registers: the program points the address        *)
(* register somewhere (status read, then high and low byte), reads and     *)
(* writes the data register, and switches the increment in the control     *)
(* register.                                                               *)

\* at most this many steps are made
MaxVramOps == 5

\* CHR ROM bytes of the cartridge; every other byte of it is 0
ChrTiles == (0 :> 90) @@ (1 :> 165) @@ (32 :> 60)

\* offset 5 and the last offset of each nametable, the first palette entry
\* and the first CHR byte
VramSeeks == {8192 + n * 1024 + k : n \in 0..3, k \in {5, 1023}} \cup {16128, 0}

\* the cell that the claims give an address: the nametables pair up by
\* mirroring mode, the palette entries as in palette_entry
VramPair(mirroring, n) == IF mirroring = "HORIZONTAL" THEN n \div 2 ELSE n % 2
VramKey(mirroring, addr) ==
    IF addr \in 8192..12287
    THEN VramPair(mirroring, (addr - 8192) \div 1024) * 1024 + (addr % 1024)
    ELSE 4096 + palette_entry(addr - 16128)

\* io.ops: steps made; io.op: the last step ("seek", "write", "read" or
\* "ctrl"); io.ret: what it returned, if a read; io.addr0, io.buf0: the
\* address register and the internal buffer before it; io.mem: for every
\* cell written through the data register, the byte last written; io.via:
\* the address of the last such write
InitVram ==
    /\ \E mirroring \in Mirrorings :
           cpu = CPU_new(Bus_new([Cartridge(2 * PrgBank, <<>>, mirroring)
                                     EXCEPT !.chr_rom.image = ChrTiles]))
    /\ cpu0 = cpu
    /\ pc_loc = "poll"
    /\ nmi_taken = 0
    /\ nmi_total = 0
    /\ nmi_rearm = 0
    /\ tick_sum = 0
    /\ io = [ops |-> 0, op |-> "none", ret |-> None, addr0 |-> 0, buf0 |-> 0,
             mem |-> <<>>, via |-> 0]

VramRunning == ~cpu.bus.panicked /\ io.ops < MaxVramOps

\* the step's bookkeeping
VramStep(op, ret) ==
    [io EXCEPT !.ops = io.ops + 1, !.op = op, !.ret = ret,
               !.addr0 = ppu.addr.value, !.buf0 = ppu.internal_data_buf]

VramSeek ==
    /\ VramRunning
    /\ \E addr \in VramSeeks :
        /\ cpu' = [cpu EXCEPT !.bus =
                       Bus_mem_write(
                           Bus_mem_write(Bus_mem_read(cpu.bus, 8194).bus, 8198, addr \div 256),
                           8198, addr % 256)]
        /\ io' = VramStep("seek", None)
        /\ UNCHANGED <<pc_loc, cpu0, nmi_taken, nmi_total, nmi_rearm, tick_sum>>

VramWrite ==
    /\ VramRunning
    /\ \E data \in DataBytes :
        /\ cpu' = [cpu EXCEPT !.bus = Bus_mem_write(cpu.bus, 8199, data)]
        /\ io' = IF ppu.addr.value \in 8192..12287 \cup 16128..16159
                 THEN [VramStep("write", None) EXCEPT
                          !.mem = store(io.mem, VramKey(ppu.mirroring, ppu.addr.value), data),
                          !.via = ppu.addr.value]
                 ELSE VramStep("write", None)
        /\ UNCHANGED <<pc_loc, cpu0, nmi_taken, nmi_total, nmi_rearm, tick_sum>>

VramRead ==
    /\ VramRunning
    /\ cpu' = [cpu EXCEPT !.bus = Bus_mem_read(cpu.bus, 8199).bus]
    /\ io' = VramStep("read", Some(Bus_mem_read(cpu.bus, 8199).ret))
    /\ UNCHANGED <<pc_loc, cpu0, nmi_taken, nmi_total, nmi_rearm, tick_sum>>

VramCtrl ==
    /\ VramRunning
    /\ \E data \in {0, VramAddIncrement} :
        /\ cpu' = [cpu EXCEPT !.bus = Bus_mem_write(cpu.bus, 8192, data)]
        /\ io' = VramStep("ctrl", None)
        /\ UNCHANGED <<pc_loc, cpu0, nmi_taken, nmi_total, nmi_rearm, tick_sum>>

NextVram == VramSeek \/ VramWrite \/ VramRead \/ VramCtrl

SpecVram == InitVram /\ [][NextVram]_vars

----------------------------------------------------------------------------
(* Sprite memory: the program sets the OAM address (0x2003), writes and     *)
(* reads OAM data (0x2004) and starts OAM DMA (0x4014) from a page of RAM. *)

\* at most this many accesses are made
MaxOamOps == 4

\* RAM pages 2 and 3 as the program has filled them: byte i of the page
DmaPages == {2, 3}
DmaSource(page, i) == IF page = 2 THEN (i % 255) + 1 ELSE 255 - (i % 255)

\* io.ops: accesses made; io.op: the last one ("addr", "write", "read" or
\* "dma"); io.ret: what it returned, if a read; io.a0: the OAM address
\* before it; io.oam: the 256 bytes of OAM as the accesses made define them
InitOam ==
    /\ cpu = [CPU_new(Bus_new(EmptyRom)) EXCEPT !.bus.cpu_vram =
                 [a \in 512..1023 |-> DmaSource(a \div 256, a % 256)]]
    /\ cpu0 = cpu
    /\ pc_loc = "poll"
    /\ nmi_taken = 0
    /\ nmi_total = 0
    /\ nmi_rearm = 0
    /\ tick_sum = 0
    /\ io = [ops |-> 0, op |-> "none", ret |-> None, a0 |-> 0,
             oam |-> [i \in 0..(OamSize - 1) |-> 0]]

OamRunning == ~cpu.bus.panicked /\ io.ops < MaxOamOps

OamStep(op, ret) ==
    [io EXCEPT !.ops = io.ops + 1, !.op = op, !.ret = ret, !.a0 = ppu.oam_addr]

OamAddr ==
    /\ OamRunning
    /\ \E data \in {0, 1, 128, 255} :
        /\ cpu' = [cpu EXCEPT !.bus = Bus_mem_write(cpu.bus, 8195, data)]
        /\ io' = OamStep("addr", None)
        /\ UNCHANGED <<pc_loc, cpu0, nmi_taken, nmi_total, nmi_rearm, tick_sum>>

OamWrite ==
    /\ OamRunning
    /\ \E data \in {34, 51} :
        /\ cpu' = [cpu EXCEPT !.bus = Bus_mem_write(cpu.bus, 8196, data)]
        /\ io' = [OamStep("write", None) EXCEPT !.oam[ppu.oam_addr] = data]
        /\ UNCHANGED <<pc_loc, cpu0, nmi_taken, nmi_total, nmi_rearm, tick_sum>>

OamRead ==
    /\ OamRunning
    /\ cpu' = [cpu EXCEPT !.bus = Bus_mem_read(cpu.bus, 8196).bus]
    /\ io' = OamStep("read", Some(Bus_mem_read(cpu.bus, 8196).ret))
    /\ UNCHANGED <<pc_loc, cpu0, nmi_taken, nmi_total, nmi_rearm, tick_sum>>

OamDma ==
    /\ OamRunning
    /\ \E page \in DmaPages :
        /\ cpu' = [cpu EXCEPT !.bus = Bus_mem_write(cpu.bus, 16404, page)]
        /\ io' = [OamStep("dma", None) EXCEPT
                     !.oam = [j \in 0..(OamSize - 1) |->
                                 DmaSource(page, (j + OamSize - ppu.oam_addr) % OamSize)]]
        /\ UNCHANGED <<pc_loc, cpu0, nmi_taken, nmi_total, nmi_rearm, tick_sum>>

NextOam == OamAddr \/ OamWrite \/ OamRead \/ OamDma

SpecOam == InitOam /\ [][NextOam]_vars

----------------------------------------------------------------------------
(* Accesses at the edges of the address map, on a bus that a few writes    *)
(* have set up: those that the bus refuses (reads of the write-only PPU    *)
(* registers, writes of the PPU status register, writes into PRG ROM) and  *)
(* those of the unmapped range 0x4018-0x7FFF.                              *)

\* 0x2000, 0x2001, 0x2003, 0x2005, 0x2006 and two mirrors of each; 0x2002
\* and two mirrors of it; the ends of PRG ROM and an address between them
RefusedReads == {8192 + r + m : r \in {0, 1, 3, 5, 6}, m \in {0, 8, 8184}}
RefusedWrites == {8194, 8202, 16378, 32768, 49443, 65535}

\* the ends of the unmapped range and addresses between them
UnmappedAddrs == {16408, 16415, 16416, 20480, 24576, 32767}

\* io.op: the last access ("none", "read", "write", "unmapped read" or
\* "unmapped write"); io.addr: its address; io.ret: what it returned, if an
\* unmapped read
InitRefused ==
    /\ \E ram \in {0, 17}, ctrl \in {0, 128}, vblank \in BOOLEAN :
           cpu = CPU_new(Bus_mem_write(
                             Bus_mem_write(IF vblank THEN InVBlank(Bus_new(EmptyRom))
                                           ELSE Bus_new(EmptyRom),
                                           2047, ram),
                             8192, ctrl))
    /\ cpu0 = cpu
    /\ pc_loc = "poll"
    /\ nmi_taken = 0
    /\ nmi_total = 0
    /\ nmi_rearm = 0
    /\ tick_sum = 0
    /\ io = [op |-> "none", addr |-> 0, ret |-> None]

RefusedRead ==
    /\ ~cpu.bus.panicked
    /\ \E a \in RefusedReads :
        /\ cpu' = [cpu EXCEPT !.bus = Bus_mem_read(cpu.bus, a).bus]
        /\ io' = [op |-> "read", addr |-> a, ret |-> None]
        /\ UNCHANGED <<pc_loc, cpu0, nmi_taken, nmi_total, nmi_rearm, tick_sum>>

RefusedWrite ==
    /\ ~cpu.bus.panicked
    /\ \E a \in RefusedWrites, data \in {0, 255} :
        /\ cpu' = [cpu EXCEPT !.bus = Bus_mem_write(cpu.bus, a, data)]
        /\ io' = [op |-> "write", addr |-> a, ret |-> None]
        /\ UNCHANGED <<pc_loc, cpu0, nmi_taken, nmi_total, nmi_rearm, tick_sum>>

UnmappedRead ==
    /\ ~cpu.bus.panicked
    /\ \E a \in UnmappedAddrs :
        /\ cpu' = [cpu EXCEPT !.bus = Bus_mem_read(cpu.bus, a).bus]
        /\ io' = [op |-> "unmapped read", addr |-> a,
                  ret |-> Some(Bus_mem_read(cpu.bus, a).ret)]
        /\ UNCHANGED <<pc_loc, cpu0, nmi_taken, nmi_total, nmi_rearm, tick_sum>>

UnmappedWrite ==
    /\ ~cpu.bus.panicked
    /\ \E a \in UnmappedAddrs, data \in {0, 255} :
        /\ cpu' = [cpu EXCEPT !.bus = Bus_mem_write(cpu.bus, a, data)]
        /\ io' = [op |-> "unmapped write", addr |-> a, ret |-> None]
        /\ UNCHANGED <<pc_loc, cpu0, nmi_taken, nmi_total, nmi_rearm, tick_sum>>

NextRefused == RefusedRead \/ RefusedWrite \/ UnmappedRead \/ UnmappedWrite

SpecRefused == InitRefused /\ [][NextRefused]_vars

----------------------------------------------------------------------------
(* Reset of a machine in use: the host has written to RAM, to VRAM and to  *)
(* the PPU's scroll and address registers, the CPU's registers hold what   *)
(* a program left in them; then CPU::reset, and accesses after it.         *)

MaxResetOps == 6

\* the RAM cell the host writes before the reset and reads after it
ResetCell == 16

\* the words a cartridge may hold at 0xFFFC
ResetVectors == {32768, 49204}

\* the registers a program may have left: those of a new CPU, and others
ResetRegisters ==
    {[a |-> 0, x |-> 0, y |-> 0, s |-> STACK_RESET, p |-> 36, pc |-> 0],
     [a |-> 85, x |-> 255, y |-> 1, s |-> 0, p |-> 227, pc |-> 36864]}

\* io.ops: the accesses and resets made; io.op: the last of them; io.vector:
\* the word of the cartridge at 0xFFFC; io.reset: whether the CPU has been
\* reset; io.before: the CPU as it was when it was reset; io.ram: the byte
\* last written to ResetCell, if any; io.aw, io.sw: the bytes written to
\* 0x2006 and to 0x2005 since the reset; io.ret: what the last read returned
InitReset ==
    /\ \E v \in ResetVectors, r \in ResetRegisters :
        /\ cpu = [CPU_new(Bus_new(Cartridge(2 * PrgBank,
                                            Place(2 * PrgBank - 4,
                                                  <<v % 256, v \div 256>>),
                                            "HORIZONTAL")))
                     EXCEPT !.register_a = r.a, !.register_x = r.x,
                            !.register_y = r.y, !.stack_pointer = r.s,
                            !.status = r.p, !.program_counter = r.pc]
        /\ io = [ops |-> 0, op |-> "none", vector |-> v, reset |-> FALSE,
                 before |-> None, ram |-> None, aw |-> <<>>, sw |-> <<>>,
                 ret |-> None]
    /\ cpu0 = cpu
    /\ pc_loc = "poll"
    /\ nmi_taken = 0
    /\ nmi_total = 0
    /\ nmi_rearm = 0
    /\ tick_sum = 0

ResetRunning == ~cpu.bus.panicked /\ io.ops < MaxResetOps

\* a host write through the bus
ResetStep(op, a, data) ==
    /\ cpu' = [cpu EXCEPT !.bus = Bus_mem_write(cpu.bus, a, data)]
    /\ io' = [io EXCEPT !.ops = @ + 1, !.op = op, !.ret = None,
                        !.ram = IF a = ResetCell THEN Some(data) ELSE @,
                        !.aw = IF io.reset /\ a = 8198 THEN Append(@, data) ELSE @,
                        !.sw = IF io.reset /\ a = 8197 THEN Append(@, data) ELSE @]
    /\ UNCHANGED <<pc_loc, cpu0, nmi_taken, nmi_total, nmi_rearm, tick_sum>>

ResetRamWrite ==
    /\ ResetRunning
    /\ ~io.reset
    /\ \E data \in {85, 170} : ResetStep("ram write", ResetCell, data)

ResetVramWrite ==
    /\ ResetRunning
    /\ ~io.reset
    /\ ResetStep("vram write", 8199, 102)

ResetAddrWrite ==
    /\ ResetRunning
    /\ Len(io.aw) < 2
    /\ \E data \in {32, 33} : ResetStep("addr write", 8198, data)

ResetScrollWrite ==
    /\ ResetRunning
    /\ Len(io.sw) < 2
    /\ \E data \in {17, 34} : ResetStep("scroll write", 8197, data)

Reset ==
    /\ ResetRunning
    /\ ~io.reset
    /\ cpu' = [reset(cpu) EXCEPT !.trace = <<>>]
    /\ io' = [io EXCEPT !.ops = @ + 1, !.op = "reset", !.reset = TRUE,
                        !.before = Some(cpu), !.ret = None]
    /\ UNCHANGED <<pc_loc, cpu0, nmi_taken, nmi_total, nmi_rearm, tick_sum>>

ResetRamRead ==
    /\ ResetRunning
    /\ io.reset
    /\ cpu' = [cpu EXCEPT !.bus = Bus_mem_read(cpu.bus, ResetCell).bus]
    /\ io' = [io EXCEPT !.ops = @ + 1, !.op = "ram read",
                        !.ret = Some(Bus_mem_read(cpu.bus, ResetCell).ret)]
    /\ UNCHANGED <<pc_loc, cpu0, nmi_taken, nmi_total, nmi_rearm, tick_sum>>

NextReset ==
    \/ ResetRamWrite \/ ResetVramWrite \/ ResetAddrWrite \/ ResetScrollWrite
    \/ Reset \/ ResetRamRead

SpecReset == InitReset /\ [][NextReset]_vars

----------------------------------------------------------------------------
(* Programs given to CPU::load_and_run on a new machine, as the tests of   *)
(* cpu.rs do.                                                              *)

\* the turns of the run loop followed inside load_and_run
MaxLoadSteps == 6

\* LDA #v; BRK
LdaBrk(v) == <<169, v, 0>>
\* LDA #$C0; TAX; INX; BRK
LdaTaxInxBrk == <<169, 192, 170, 232, 0>>
\* LDA $10; BRK
LdaZeroPageBrk == <<165, 16, 0>>

LoadPrograms == {LdaBrk(v) : v \in 0..31} \cup {LdaTaxInxBrk, LdaZeroPageBrk, <<>>}

\* io.op: "none" or "load_and_run"; io.program: the program given; io.poked:
\* whether 0x55 was written at 0x0010 beforehand
InitLoad ==
    /\ \E program \in LoadPrograms, poked \in BOOLEAN :
        /\ cpu = [(IF poked THEN mem_write(CPU_new(Bus_new(EmptyRom)), 16, 85)
                   ELSE CPU_new(Bus_new(EmptyRom))) EXCEPT !.trace = <<>>]
        /\ io = [op |-> "none", program |-> program, poked |-> poked]
    /\ cpu0 = cpu
    /\ pc_loc = "poll"
    /\ nmi_taken = 0
    /\ nmi_total = 0
    /\ nmi_rearm = 0
    /\ tick_sum = 0

LoadAndRun ==
    /\ io.op = "none"
    /\ cpu' = [load_and_run(cpu, io.program, MaxLoadSteps) EXCEPT !.trace = <<>>]
    /\ io' = [io EXCEPT !.op = "load_and_run"]
    /\ UNCHANGED <<pc_loc, cpu0, nmi_taken, nmi_total, nmi_rearm, tick_sum>>

SpecLoad == InitLoad /\ [][LoadAndRun]_vars

----------------------------------------------------------------------------
(* The bus with its APU, ticked as the run loop ticks it after each         *)
(* instruction.  The frame counter (apu/frame_counter.rs) is not part of    *)
(* the sources: each of its ticks may return any FrameResult.               *)

MaxApuCycles == 85

\* cycle counts of instructions
ApuTickCycles == {3, 7}

\* Bus::tick on a bus that carries its APU
Bus_tick_apu(bus, cycles, r) ==
    [Bus_tick(bus, cycles) EXCEPT
        !.apu = APU_tick(bus.apu, bus.cycles + cycles, cycles, r)]

\* io.n: the cycles of the last tick; io.result: the FrameResult of its
\* frame-counter step; io.before: the APU before it
InitApu ==
    /\ cpu = CPU_new(Bus_new(EmptyRom) @@ [apu |-> APU_new])
    /\ cpu0 = cpu
    /\ pc_loc = "poll"
    /\ nmi_taken = 0
    /\ nmi_total = 0
    /\ nmi_rearm = 0
    /\ tick_sum = 0
    /\ io = [n |-> 0, result |-> "None", before |-> APU_new]

ApuTick ==
    /\ cpu.bus.cycles < MaxApuCycles
    /\ \E n \in ApuTickCycles, r \in FrameResults :
        /\ cpu' = [cpu EXCEPT !.bus = Bus_tick_apu(cpu.bus, n, r)]
        /\ tick_sum' = tick_sum + n
        /\ io' = [n |-> n, result |-> r, before |-> cpu.bus.apu]
    /\ UNCHANGED <<pc_loc, cpu0, nmi_taken, nmi_total, nmi_rearm>>

SpecApu == InitApu /\ [][ApuTick]_vars

----------------------------------------------------------------------------
(* The Stack trait of the CPU, called directly for every stack pointer.     *)

MaxStackOps == 3

StackBytes == {18, 239}
StackWords == {4660, 255}

\* io.ops: the calls made; io.op, io.data, io.s0, io.ret: the last call, what
\* it pushed, the stack pointer before it and what it returned; io.prev: the
\* same of the call before it
InitStack ==
    /\ \E s \in Byte :
           cpu = [CPU_new(Bus_new(EmptyRom)) EXCEPT !.stack_pointer = s]
    /\ cpu0 = cpu
    /\ pc_loc = "poll"
    /\ nmi_taken = 0
    /\ nmi_total = 0
    /\ nmi_rearm = 0
    /\ tick_sum = 0
    /\ io = [ops |-> 0, op |-> "none", data |-> None, s0 |-> 0, ret |-> None,
             prev |-> [op |-> "none", data |-> None, s0 |-> 0]]

StackCall(op, data, after, ret) ==
    /\ io.ops < MaxStackOps
    /\ cpu' = after
    /\ io' = [ops |-> io.ops + 1, op |-> op, data |-> data,
              s0 |-> cpu.stack_pointer, ret |-> ret,
              prev |-> [op |-> io.op, data |-> io.data, s0 |-> io.s0]]
    /\ UNCHANGED <<pc_loc, cpu0, nmi_taken, nmi_total, nmi_rearm, tick_sum>>

StackPush ==
    \E data \in StackBytes :
        StackCall("push", Some(data),
                  stack_push([cpu EXCEPT !.trace = <<>>], data), None)

StackPop ==
    StackCall("pop", None,
              stack_pop([cpu EXCEPT !.trace = <<>>]).cpu,
              Some(stack_pop([cpu EXCEPT !.trace = <<>>]).ret))

StackPushU16 ==
    \E data \in StackWords :
        StackCall("push_u16", Some(data),
                  stack_push_u16([cpu EXCEPT !.trace = <<>>], data), None)

StackPopU16 ==
    StackCall("pop_u16", None,
              stack_pop_u16([cpu EXCEPT !.trace = <<>>]).cpu,
              Some(stack_pop_u16([cpu EXCEPT !.trace = <<>>]).ret))

NextStack == StackPush \/ StackPop \/ StackPushU16 \/ StackPopU16

SpecStack == InitStack /\ [][NextStack]_vars

----------------------------------------------------------------------------
(* JMP absolute and JSR at several addresses, to several targets.          *)

\* 0x8000, 0x80FE (the operand word straddles a page) and 0xC000
JumpSites == {32768, 33022, 49152}

\* RAM, the instruction itself, its first operand byte, the byte after it,
\* another page of PRG ROM and the last byte of the address space
JumpTargets(x) == {0, 1536, x, x + 1, x + 3, 36864, 65535}

InitJump ==
    /\ \E x \in JumpSites, code \in {76, 32} :
        \E w \in JumpTargets(x) :
            cpu = Started(x, At(x, <<code, w % 256, w \div 256>>), 36, STACK_RESET)
    /\ cpu0 = cpu
    /\ pc_loc = "poll"
    /\ nmi_taken = 0
    /\ nmi_total = 0
    /\ nmi_rearm = 0
    /\ tick_sum = 0
    /\ io = <<>>

SpecJump == InitJump /\ [][NextOps]_vars

----------------------------------------------------------------------------
(* The unofficial compound instructions, dispatched on a CPU whose PC is at *)
(* the operand bytes, as it is after the fetch of the opcode.               *)

UnofficialOps == {"lax", "sax", "dcp", "isb", "slo", "rla", "sre", "rra"}

\* the arms of the match of run_with_callback for the unofficial opcodes
unofficial(self, op, mode) ==
    CASE op = "lax" -> lax(self, mode)
      [] op = "sax" -> sax(self, mode)
      [] op = "dcp" -> dcp(self, mode)
      [] op = "isb" -> isb(self, mode)
      [] op = "slo" -> slo(self, mode)
      [] op = "rla" -> rla(self, mode)
      [] op = "sre" -> sre(self, mode)
      [] op = "rra" -> rra(self, mode)

\* the operand bytes 0x10 0x02: the operand is at 0x0010 (zero page) or at
\* 0x0210 (absolute)
OperandAddress(mode) == IF mode = "ZeroPage" THEN 16 ELSE 528

UnofficialA == {0, 64, 127, 128, 195, 255}
UnofficialX == {15, 255}
\* no flag but bit 5 and I; the same with carry; N, V, D, I, Z, C
UnofficialP == {36, 37, 239}

\* io.op: the instruction dispatched, or "none"; io.mode: its addressing
\* mode; io.m: the operand byte; io.before: the CPU before it
InitUnofficial ==
    /\ \E a \in UnofficialA, x \in UnofficialX, p \in UnofficialP, m \in Byte,
          mode \in {"ZeroPage", "Absolute"} :
        /\ cpu = [mem_write(Started(PrgBase, At(PrgBase, <<16, 2>>), p, STACK_RESET),
                            OperandAddress(mode), m)
                     EXCEPT !.register_a = a, !.register_x = x, !.trace = <<>>]
        /\ io = [op |-> "none", mode |-> mode, m |-> m, before |-> None]
    /\ cpu0 = cpu
    /\ pc_loc = "poll"
    /\ nmi_taken = 0
    /\ nmi_total = 0
    /\ nmi_rearm = 0
    /\ tick_sum = 0

Unofficial ==
    /\ io.op = "none"
    /\ \E op \in UnofficialOps :
        /\ cpu' = [unofficial(cpu, op, io.mode) EXCEPT !.trace = <<>>]
        /\ io' = [io EXCEPT !.op = op, !.before = Some(cpu)]
    /\ UNCHANGED <<pc_loc, cpu0, nmi_taken, nmi_total, nmi_rearm, tick_sum>>

SpecUnofficial == InitUnofficial /\ [][Unofficial]_vars

----------------------------------------------------------------------------
(* An envelope unit on its own, as a channel drives it: register writes,   *)
(* starts and clocks in any order.                                         *)

MaxEnvelopeOps == 20

\* periods 0 and 2, each with and without the loop flag, and 3 with the
\* constant-volume flag
EnvelopeBytes == {0, 2, 32, 34, 19}

\* io.envelope: the unit; io.ops: the calls made; io.op: the last of them;
\* io.before: the unit before it; io.run: the clocks since the one that last
\* set the level, if the register has not been written since; io.gap: when
\* the last call was a clock that set the level, the clocks from the one
\* that set it before, this one included
InitEnvelope ==
    /\ cpu = CPU_new(Bus_new(EmptyRom))
    /\ cpu0 = cpu
    /\ pc_loc = "poll"
    /\ nmi_taken = 0
    /\ nmi_total = 0
    /\ nmi_rearm = 0
    /\ tick_sum = 0
    /\ io = [envelope |-> Envelope_new, ops |-> 0, op |-> "none",
             before |-> Envelope_new, run |-> None, gap |-> None]

EnvelopeCall(op, after, clocks, gap) ==
    /\ io.ops < MaxEnvelopeOps
    /\ io' = [envelope |-> after, ops |-> io.ops + 1, op |-> op,
              before |-> io.envelope, run |-> clocks, gap |-> gap]
    /\ UNCHANGED <<cpu, pc_loc, cpu0, nmi_taken, nmi_total, nmi_rearm, tick_sum>>

\* whether a clock of the unit e sets the level
sets_level(e) == e.start \/ (e.counter = 0 /\ (e.level > 0 \/ e.control.looping))

EnvelopeTick ==
    EnvelopeCall("tick", Envelope_tick(io.envelope),
                 IF sets_level(io.envelope) THEN Some(0)
                 ELSE IF io.run = None THEN None
                 ELSE Some(io.run[1] + 1),
                 IF sets_level(io.envelope) /\ io.run # None
                 THEN Some(io.run[1] + 1) ELSE None)

EnvelopeWrite ==
    \E data \in EnvelopeBytes :
        EnvelopeCall("write", Envelope_write_register(io.envelope, data), None, None)

EnvelopeStart ==
    EnvelopeCall("start", Envelope_start(io.envelope), io.run, None)

NextEnvelope == EnvelopeTick \/ EnvelopeWrite \/ EnvelopeStart

SpecEnvelope == InitEnvelope /\ [][NextEnvelope]_vars

----------------------------------------------------------------------------
(* OAM DMA from every kind of page: RAM and a mirror of it, the PPU         *)
(* registers and their last mirror, the APU and I/O registers, the          *)
(* unmapped range and PRG ROM.                                              *)

MaxDmaOps == 3

\* 0x02 and its mirror 0x0A, 0x20, 0x3F, 0x40, 0x50, 0x80
DmaSourcePages == {2, 10, 32, 63, 64, 80, 128}

\* PRG ROM byte i of the first page
DmaRomByte(i) == (3 * i + 1) % 256

\* io.ops: the writes made; io.op: the last one ("none", "addr" or "dma");
\* io.page: the byte written to 0x4014; io.before: the bus before it
InitDma ==
    /\ cpu = [CPU_new(Bus_new(Cartridge(2 * PrgBank,
                                        [i \in 0..255 |-> DmaRomByte(i)],
                                        "HORIZONTAL")))
                 EXCEPT !.bus.cpu_vram = [a \in 512..767 |-> DmaSource(2, a % 256)]]
    /\ cpu0 = cpu
    /\ pc_loc = "poll"
    /\ nmi_taken = 0
    /\ nmi_total = 0
    /\ nmi_rearm = 0
    /\ tick_sum = 0
    /\ io = [ops |-> 0, op |-> "none", page |-> 0, before |-> cpu.bus]

DmaRunning == ~cpu.bus.panicked /\ io.ops < MaxDmaOps

DmaAddr ==
    /\ DmaRunning
    /\ \E data \in {0, 128, 255} :
        /\ cpu' = [cpu EXCEPT !.bus = Bus_mem_write(cpu.bus, 8195, data)]
        /\ io' = [ops |-> io.ops + 1, op |-> "addr", page |-> 0, before |-> cpu.bus]
    /\ UNCHANGED <<pc_loc, cpu0, nmi_taken, nmi_total, nmi_rearm, tick_sum>>

Dma ==
    /\ DmaRunning
    /\ \E page \in DmaSourcePages :
        /\ cpu' = [cpu EXCEPT !.bus = Bus_mem_write(cpu.bus, 16404, page)]
        /\ io' = [ops |-> io.ops + 1, op |-> "dma", page |-> page, before |-> cpu.bus]
    /\ UNCHANGED <<pc_loc, cpu0, nmi_taken, nmi_total, nmi_rearm, tick_sum>>

NextDma == DmaAddr \/ Dma

SpecDma == InitDma /\ [][NextDma]_vars

----------------------------------------------------------------------------
(***************************************************************************)
(* Spec: the mask register and its flag accessors                          *)
(***************************************************************************)
MaxMaskOps == 3

\* Grayscale .. EmphasiseBlue
MaskFlags == {1, 2, 4, 8, 16, 32, 64, 128}

\* bytes written to 0x2000 and 0x2001
MaskBytes == {0, 3, 4, 24, 30, 128, 255}

\* io.ops: the calls made; io.op: the last one ("none", "ctrl", "mask" or
\* "set"); io.flag, io.value: its arguments; io.before: the PPU before it
InitMask ==
    /\ cpu = CPU_new(Bus_new(EmptyRom))
    /\ cpu0 = cpu
    /\ pc_loc = "poll"
    /\ nmi_taken = 0
    /\ nmi_total = 0
    /\ nmi_rearm = 0
    /\ tick_sum = 0
    /\ io = [ops |-> 0, op |-> "none", flag |-> 0, value |-> 0,
             before |-> cpu.bus.ppu]

MaskCall(op, flag, value, bus) ==
    /\ io.ops < MaxMaskOps
    /\ cpu' = [cpu EXCEPT !.bus = bus]
    /\ io' = [ops |-> io.ops + 1, op |-> op, flag |-> flag, value |-> value,
              before |-> cpu.bus.ppu]
    /\ UNCHANGED <<pc_loc, cpu0, nmi_taken, nmi_total, nmi_rearm, tick_sum>>

MaskWriteCtrl ==
    \E v \in MaskBytes : MaskCall("ctrl", 0, v, Bus_mem_write(cpu.bus, 8192, v))

MaskWriteMask ==
    \E v \in MaskBytes : MaskCall("mask", 0, v, Bus_mem_write(cpu.bus, 8193, v))

MaskSet ==
    \E flag \in MaskFlags, value \in BOOLEAN :
        MaskCall("set", flag, IF value THEN 1 ELSE 0,
                 [cpu.bus EXCEPT !.ppu = set_mask(cpu.bus.ppu, flag, value)])

NextMask == MaskWriteCtrl \/ MaskWriteMask \/ MaskSet

SpecMask == InitMask /\ [][NextMask]_vars

----------------------------------------------------------------------------
(* Frame timing *)

FrameDots == ScanlinesPerFrame * DotsPerScanline

\* C1: after T CPU cycles of bus.tick calls the frame callback has been
\* invoked exactly floor(3T / 89342) times: once per completed frame of
\* 262 scanlines of 341 dots, never twice for a frame and never skipped.
C1_FrameCallbackOncePerFrame ==
    cpu.bus.callbacks = (3 * cpu.bus.cycles) \div FrameDots

C1_Witness == cpu.bus.callbacks = 2

\* C2: the bus cycle count is the sum of the n ticked, the scanline is in
\* 0..261, the dot counter in 0..340, and scanline*341 + dot equals
\* 3 * cycles modulo 89342: no dot is lost at a scanline or frame wrap.
C2_PpuThreeDotsPerCycle ==
    /\ cpu.bus.cycles = tick_sum
    /\ ppu.scanline \in 0..(ScanlinesPerFrame - 1)
    /\ ppu.cycles \in 0..(DotsPerScanline - 1)
    /\ ppu.scanline * DotsPerScanline + ppu.cycles = (3 * cpu.bus.cycles) % FrameDots

C2_Witness ==
    /\ cpu.bus.callbacks = 1
    /\ ppu.scanline = 0
    /\ ppu.cycles > 0
    /\ tick_sum > 0

VBlankFlag(p) == ppu_get_status(p, VBlankStarted)
ppu_next == cpu'.bus.ppu

\* C3: a PPU tick that moves the scanline to 241 sets VBlank and latches an
\* NMI exactly when ctrl bit 7 is set at that moment; a tick that moves the
\* scanline past 261 resets it to 0, clears VBlank and sprite-zero-hit and
\* is the only kind of tick that returns true (the callback runs); so the
\* VBlank flag is set only while the scanline is in 241..261.
C3_VBlankEntryAndFrameEnd ==
    /\ [][ /\ (ppu_next.scanline = VBlankScanline /\ ppu.scanline # VBlankScanline) =>
                /\ VBlankFlag(ppu_next)
                /\ (ppu_next.nmi_interrupt = Some(1)) <=> ppu_get_flag(ppu, GenerateNMI)
           /\ (ppu.scanline = ScanlinesPerFrame - 1 /\ ppu_next.scanline # ppu.scanline) =>
                /\ ppu_next.scanline = 0
                /\ ~VBlankFlag(ppu_next)
                /\ ~ppu_get_status(ppu_next, SpriteZeroHit)
                /\ cpu'.bus.callbacks = cpu.bus.callbacks + 1
           /\ (cpu'.bus.callbacks # cpu.bus.callbacks) =>
                /\ ppu.scanline = ScanlinesPerFrame - 1
                /\ ppu_next.scanline = 0 ]_vars
    /\ [](VBlankFlag(ppu) => ppu.scanline \in VBlankScanline..(ScanlinesPerFrame - 1))

C3_Witness ==
    /\ ppu.scanline = VBlankScanline
    /\ VBlankFlag(ppu)
    /\ ppu.nmi_interrupt = Some(1)
    /\ cpu.bus.callbacks = 1

----------------------------------------------------------------------------
(* NMI *)

nmi_pending == ppu.nmi_interrupt # None
hi(word) == word \div 256
lo(word) == word % 256
stack_at(self, below) == STACK + wrapping_sub8(self.stack_pointer, below)
nmi_vector == read_prg_rom(cpu.bus, 65531) * 256 + read_prg_rom(cpu.bus, 65530)

\* C4: an NMI latched during the bus.tick that ends instruction k is serviced
\* before the opcode of instruction k+1 is fetched: the step taken from the
\* poll with the NMI pending begins by pushing the address of instruction
\* k+1, makes no read but the two of the NMI vector, and leaves the CPU at
\* the NMI routine; and no fetch is ever made with an NMI pending.
C4_NmiServicedBeforeNextFetch ==
    /\ [][ (pc_loc = "poll" /\ nmi_pending) =>
              /\ pc_loc' = "fetch"
              /\ Len(cpu'.trace) >= 2
              /\ cpu'.trace[1] = Ev("write", stack_at(cpu, 0), hi(cpu.program_counter))
              /\ cpu'.trace[2] = Ev("write", stack_at(cpu, 1), lo(cpu.program_counter))
              /\ \A i \in DOMAIN cpu'.trace :
                     cpu'.trace[i].op = "read" => cpu'.trace[i].addr \in {65530, 65531}
              /\ cpu'.program_counter = nmi_vector ]_vars
    /\ [](pc_loc = "fetch" => ~nmi_pending)

\* an NMI latched by the tick of the instruction just executed (scanline 241)
C4_Witness ==
    /\ pc_loc = "fetch"
    /\ nmi_total = 1
    /\ cpu.program_counter = nmi_vector
    /\ ppu.scanline = VBlankScanline
    /\ cpu.trace[1].data = hi(PrgBase + 5)

VBlankEntries == cpu.bus.callbacks + (IF ppu.scanline >= VBlankScanline THEN 1 ELSE 0)

\* C5 as stated: the CPU services at most one NMI between two consecutive
\* frame boundaries, whatever the program writes to 0x2000 during VBlank,
\* and a second poll right after a poll returns no NMI.
C5_AtMostOneNmiPerFrame ==
    /\ nmi_taken <= 1
    /\ pc_loc = "fetch" => Bus_poll_nmi_status(cpu.bus).ret = None

\* C5, amended: the CPU services at most one NMI per VBlank entry plus one
\* per write of 0x2000 that turns the NMI-enable bit on while the VBlank
\* flag is set; a program that makes no such write gets at most one NMI
\* between two consecutive frame boundaries; and a second poll right after
\* a poll returns no NMI (take-on-read).
C5_OneNmiPerVBlankOrEnable ==
    /\ nmi_total <= VBlankEntries + nmi_rearm
    /\ nmi_rearm = 0 => nmi_taken <= 1
    /\ pc_loc = "fetch" => Bus_poll_nmi_status(cpu.bus).ret = None

\* several NMIs serviced in one VBlank, each after an enabling write
C5_Witness ==
    /\ pc_loc = "fetch"
    /\ nmi_taken = 3
    /\ nmi_rearm = 2
    /\ cpu.trace # <<>>

\* the step that services an NMI leaves its six bus events in the trace
nmi_serviced == pc_loc = "fetch" /\ Len(cpu.trace) = 6

\* C6: in every reachable state, also after a BRK, the status byte that NMI
\* servicing pushes has the B flag (bit 4) clear and bit 5 set.
C6_NmiPushesBreakClear ==
    nmi_serviced =>
        /\ cpu.trace[3].op = "write"
        /\ ~has_bit(cpu.trace[3].data, Break)
        /\ has_bit(cpu.trace[3].data, Break2)

\* C7: servicing an NMI pushes PC high, PC low and the status byte, in this
\* order (S goes down by 3 modulo 256), sets I, advances the bus by exactly
\* 2 CPU cycles and then loads PC from the little-endian word at 0xFFFA; A,
\* X and Y are unchanged.  (Bits 4 and 5 of the pushed byte are C6's.)
C7_NmiServiceSequence ==
    [][ (pc_loc = "poll" /\ nmi_pending /\ pc_loc' = "fetch") =>
          /\ Len(cpu'.trace) = 6
          /\ cpu'.trace[1] = Ev("write", stack_at(cpu, 0), hi(cpu.program_counter))
          /\ cpu'.trace[2] = Ev("write", stack_at(cpu, 1), lo(cpu.program_counter))
          /\ cpu'.trace[3].op = "write"
          /\ cpu'.trace[3].addr = stack_at(cpu, 2)
          /\ BitAnd(cpu'.trace[3].data, 207) = BitAnd(cpu.status, 207)
          /\ cpu'.trace[4] = Ev("tick", 0, 2)
          /\ cpu'.trace[5] = Ev("read", 65530, lo(nmi_vector))
          /\ cpu'.trace[6] = Ev("read", 65531, hi(nmi_vector))
          /\ cpu'.stack_pointer = wrapping_sub8(cpu.stack_pointer, 3)
          /\ get_flag(cpu', InterruptDisable)
          /\ cpu'.bus.cycles = cpu.bus.cycles + 2
          /\ cpu'.bus.ppu.scanline * DotsPerScanline + cpu'.bus.ppu.cycles
                 = (ppu.scanline * DotsPerScanline + ppu.cycles + 6) % FrameDots
          /\ cpu'.program_counter = nmi_vector
          /\ cpu'.register_a = cpu.register_a
          /\ cpu'.register_x = cpu.register_x
          /\ cpu'.register_y = cpu.register_y ]_vars

\* an NMI serviced with S = 1: the three pushes wrap the stack pointer
C7_Witness ==
    /\ nmi_serviced
    /\ cpu.stack_pointer = 254
    /\ cpu.trace[3].addr = STACK + 255
    /\ cpu.trace[1].addr = STACK + 1

----------------------------------------------------------------------------
(* BRK *)

\* the instruction just executed was a BRK: its first bus event is the
\* fetch of opcode 0x00
brk_executed ==
    /\ pc_loc = "poll"
    /\ cpu.trace # <<>>
    /\ cpu.trace[1].op = "read"
    /\ cpu.trace[1].data = 0
    /\ ~cpu.bus.panicked

irq_vector == read_prg_rom(cpu.bus, 65535) * 256 + read_prg_rom(cpu.bus, 65534)

\* C8: BRK increments PC by one extra byte past the opcode, pushes that PC
\* and then the status byte with the B flag set, sets the I flag in the
\* status register, and loads PC from the little-endian word at 0xFFFE.
C8_BrkPushesAndSetsI ==
    brk_executed =>
        /\ Len(cpu.trace) = 7
        /\ cpu.trace[2] = Ev("write", stack_at(cpu, 253), hi(cpu.trace[1].addr + 2))
        /\ cpu.trace[3] = Ev("write", stack_at(cpu, 254), lo(cpu.trace[1].addr + 2))
        /\ cpu.trace[4].op = "write"
        /\ cpu.trace[4].addr = stack_at(cpu, 255)
        /\ has_bit(cpu.trace[4].data, Break)
        /\ get_flag(cpu, InterruptDisable)
        /\ cpu.program_counter = irq_vector

----------------------------------------------------------------------------
(* Round trips *)

\* the first opcode of the program loaded at 0x8000
program == read_prg_rom(cpu.bus, PrgBase)
\* the run loop is about to poll with PC n bytes into the program
before(n) == pc_loc = "poll" /\ cpu.program_counter = PrgBase + n

\* C9: for every A, P and S, PHA then PLA leaves A and S unchanged; PHP then
\* PLP leaves S unchanged and preserves every status flag, except that the
\* byte PHP pushes has B and bit 5 set and the status PLP restores has B
\* clear and bit 5 set.
C9_PushPullRoundTrip ==
    /\ (program = 72 /\ before(1)) =>
           /\ cpu.trace[2] = Ev("write", STACK + cpu0.stack_pointer, cpu0.register_a)
           /\ cpu.stack_pointer = wrapping_sub8(cpu0.stack_pointer, 1)
    /\ (program = 72 /\ before(2)) =>
           /\ cpu.register_a = cpu0.register_a
           /\ cpu.stack_pointer = cpu0.stack_pointer
    /\ (program = 8 /\ before(1)) =>
           /\ cpu.trace[2] = Ev("write", STACK + cpu0.stack_pointer,
                                BitOr(cpu0.status, Break + Break2))
           /\ cpu.status = cpu0.status
    /\ (program = 8 /\ before(2)) =>
           /\ cpu.stack_pointer = cpu0.stack_pointer
           /\ cpu.status = with_bit(with_bit(cpu0.status, Break, FALSE), Break2, TRUE)

\* PHP; PLP done with B set before and the stack pointer wrapping at 0
C9_Witness ==
    /\ program = 8
    /\ before(2)
    /\ cpu.bus.cycles = 7
    /\ cpu0.status = 245
    /\ cpu.status = 229
    /\ cpu0.stack_pointer = 0
    /\ cell(cpu.bus.cpu_vram, STACK) = 245

operand == read_prg_rom(cpu.bus, PrgBase + 1)

\* C10 as stated: with carry 1 before the ADC, ADC M then SBC M leaves A
\* equal to its original value, for every A and M.
C10_AdcThenSbcIsIdentity ==
    (program = 105 /\ before(4)) => cpu.register_a = cpu0.register_a

\* C10, amended: with carry 1 before the ADC, ADC M then SBC M leaves A equal
\* to its original value when the ADC carries nothing out (A + M + 1 <= 255);
\* when it carries out, the SBC borrows nothing and A ends at A + 1 modulo 256.
C10_AdcThenSbcIdentityUnlessCarry ==
    (program = 105 /\ before(4)) =>
        cpu.register_a = IF cpu0.register_a + operand + 1 <= 255
                         THEN cpu0.register_a
                         ELSE wrapping_add8(cpu0.register_a, 1)

C10_Witness ==
    /\ program = 105
    /\ before(4)
    /\ cpu.bus.cycles = 4
    /\ operand = 100
    /\ cpu0.register_a = 100
    /\ cpu.register_a = 100

----------------------------------------------------------------------------
(* Control flow *)

\* the instruction just executed had its opcode in `codes`: the first bus
\* event of an instruction is the fetch of its opcode, at `site`
executed(codes) ==
    /\ pc_loc = "poll"
    /\ cpu.trace # <<>>
    /\ cpu.trace[1].op = "read"
    /\ cpu.trace[1].data \in codes
    /\ ~cpu.bus.panicked
site == cpu.trace[1].addr
word_at(a) == read_prg_rom(cpu.bus, a + 1) * 256 + read_prg_rom(cpu.bus, a)

\* C11: a JSR at X, whatever its target, pushes X+2 (high byte, then low
\* byte) and jumps to the target; the RTS that follows with the stack
\* balanced sets PC to X+3 and restores S to its value before the JSR.
C11_JsrRtsReturnsAfterJsr ==
    /\ executed({32}) =>
           /\ Len(cpu.trace) = 6
           /\ cpu.trace[2] = Ev("write", stack_at(cpu, 254), hi(site + 2))
           /\ cpu.trace[3] = Ev("write", stack_at(cpu, 255), lo(site + 2))
           /\ cpu.program_counter = word_at(site + 1)
    /\ (executed({96}) /\ cpu.bus.cycles = 12) =>
           /\ cpu.program_counter = cpu0.program_counter + 3
           /\ cpu.stack_pointer = cpu0.stack_pointer

\* C12: JMP (indirect) with pointer P reads the low byte of the target at P
\* and the high byte at P & 0xFF00 when the low byte of P is 0xFF, at P + 1
\* otherwise, and the word so formed is the target PC goes to.  (A target
\* that is the address of the JMP's own operand is C13's case.)
C12_JmpIndirectPageWrap ==
    executed({108}) =>
        /\ Len(cpu.trace) = 6
        /\ cpu.trace[4] = Ev("read", word_at(site + 1),
                             read_prg_rom(cpu.bus, word_at(site + 1)))
        /\ cpu.trace[5].op = "read"
        /\ cpu.trace[5].addr = IF word_at(site + 1) % 256 = 255
                               THEN word_at(site + 1) - 255
                               ELSE word_at(site + 1) + 1
        /\ cpu.trace[5].data = read_prg_rom(cpu.bus, cpu.trace[5].addr)
        /\ cpu.trace[5].data * 256 + cpu.trace[4].data # site + 1 =>
               cpu.program_counter = cpu.trace[5].data * 256 + cpu.trace[4].data

\* the pointer 0x90FF: low byte from 0x90FF, high byte from 0x9000
C12_Witness ==
    /\ executed({108})
    /\ word_at(site + 1) = 37119
    /\ read_prg_rom(cpu.bus, 36864) = 52
    /\ read_prg_rom(cpu.bus, 37120) = 58
    /\ cpu.program_counter = 52 * 256 + 57

signed8(d) == IF d >= 128 THEN d - 256 ELSE d

\* C13: a taken relative branch with displacement byte d leaves PC at (the
\* address of the byte after the displacement) + signed8(d) modulo 2^16,
\* for every d in 0x00..0xFF; a branch not taken leaves PC at the byte after
\* the displacement.
C13_BranchDisplacement ==
    executed(BranchOpcodes) =>
        cpu.program_counter =
            IF branch_condition(cpu, cpu.trace[1].data)
            THEN (site + 2 + signed8(read_prg_rom(cpu.bus, site + 1))) % 65536
            ELSE site + 2

----------------------------------------------------------------------------
(* Joypad *)

is_pressed(button) == IF button \in io.pressed THEN 1 ELSE 0

\* C14: while the strobe bit is set (the last write had bit 0 = 1), every
\* read returns the current pressed state of button A and does not advance
\* the button index, however many reads are made in a row.
C14_StrobeSetReadsButtonA ==
    io.strobe /\ io.ret # None =>
        /\ io.ret = Some(is_pressed("ButtonA"))
        /\ cpu.bus.joypad1.button_index = 0

C14_Witness ==
    /\ io.strobe
    /\ io.reads = MaxJoyReads
    /\ io.ret = Some(1)
    /\ "ButtonB" \notin io.pressed

\* C15: with the strobe clear, the k-th read (k = 1..8) after the last
\* strobe pulse or after construction returns the pressed state of the k-th
\* button in the order A, B, Select, Start, Up, Down, Left, Right, and every
\* later read returns 1; after a pulse the sequence restarts at button A.
C15_StrobeClearSerialReads ==
    ~io.strobe /\ io.ret # None =>
        io.ret = Some(IF io.reads <= 8 THEN is_pressed(JoypadButton[io.reads]) ELSE 1)

\* the ninth read after a pulse that followed earlier reads, no button held
C15_Witness ==
    /\ ~io.strobe
    /\ io.reads = 9
    /\ io.pressed = {}
    /\ io.ret = Some(1)
    /\ cpu.bus.joypad1.button_index = 8

----------------------------------------------------------------------------
(* CPU RAM *)

\* C16: CPU RAM is mirrored every 0x0800 bytes across 0x0000-0x1FFF: reading
\* a returns the value last written to any address b of that range with
\* b & 0x07FF = a & 0x07FF, and a write changes no other RAM cell.
C16_RamMirroredEvery2K ==
    /\ \A a \in RamAddrs : Bus_mem_read(cpu.bus, a).ret = io.last[a % 2048]
    /\ \A i \in DOMAIN cpu.bus.cpu_vram : i \in DOMAIN io.last
    /\ io.ret # None => io.ret = Some(io.last[io.addr % 2048])

\* 0x0123 written through 0x1923 and read back through 0x0923 after another
\* cell was written through its own mirrors
C16_Witness ==
    /\ io.last[291] = 255
    /\ io.last[2047] = 17
    /\ io.wrote = 6435
    /\ io.addr = 2339
    /\ io.ret = Some(255)

----------------------------------------------------------------------------
(* PPU registers *)

\* addresses of 0x2008-0x3FFF that stand for register r
MirrorsOf(r) == {8200 + r, 12080 + r}

\* C17: for every address a in 0x2008..0x3FFF a bus read or write of a
\* returns the same value and has the same effect, fatal errors included,
\* as the read or write of 0x2000 + (a & 7).
C17_PpuRegisterMirrors ==
    \A r \in 0..7 :
        LET same(read, written) ==
                \A a \in MirrorsOf(r) :
                    /\ Bus_mem_read(cpu.bus, a) = read
                    /\ Bus_mem_write(cpu.bus, a, 128) = written
        IN same(Bus_mem_read(cpu.bus, 8192 + r), Bus_mem_write(cpu.bus, 8192 + r, 128))

\* a byte written to the palette has come back through a mirror of the data
\* register, and the mirrors of a write-only and of a read-only register fail
C17_Witness ==
    /\ io.mirrored
    /\ io.op = "read"
    /\ io.reg = 7
    /\ io.ret = Some(119)
    /\ Bus_mem_read(cpu.bus, 16376).bus.panicked
    /\ Bus_mem_write(cpu.bus, 12082, 0).panicked

data_at(i) == read_data([ppu EXCEPT !.addr.value = 16128 + i]).ret

\* C18: the palette addresses 0x3F10, 0x3F14, 0x3F18 and 0x3F1C alias
\* 0x3F00, 0x3F04, 0x3F08 and 0x3F0C: a data write through either address
\* of a pair is returned by a data read through the other, and the other
\* 28 palette entries are unaffected.
C18_PaletteAliases ==
    /\ ~cpu.bus.panicked =>
           \A i \in 0..(PaletteSize - 1) : data_at(i) = io.pal[palette_entry(i)]
    /\ io.op = "read" /\ io.reg = 7 /\ io.addr0 \in 16128..16159 =>
           io.ret = Some(io.pal[palette_entry(io.addr0 - 16128)])

\* written at 0x3F10, read at 0x3F00
C18_Witness ==
    /\ io.via = 16144
    /\ io.op = "read"
    /\ io.reg = 7
    /\ io.addr0 = 16128
    /\ io.ret = Some(102)

\* C19: a data write with the address register anywhere in 0x3F00..0x3FFF
\* completes without error and stores the byte into the 32-byte palette
\* RAM, addresses above 0x3F1F included.
C19_PaletteWriteAnyAddress ==
    io.op = "write" /\ io.reg = 7 /\ io.addr0 \in 16128..16383 =>
        /\ ~cpu.bus.panicked
        /\ \E i \in 0..(PaletteSize - 1) : cell(ppu.palette_table, i) \in DataBytes

\* C20: a read of the status register returns the status byte as it was,
\* clears the VBlank flag and resets the address latch and the scroll
\* latch: whatever the latches were, the next two address writes form a
\* new address, high byte first.
C20_StatusReadResetsLatches ==
    /\ io.op = "read" /\ io.reg = 2 =>
           /\ io.ret = Some(io.status0)
           /\ ppu.status = with_bit(io.status0, VBlankStarted, FALSE)
           /\ ppu.addr.hi_ptr
           /\ ~ppu.scroll.latch
    /\ io.fresh /\ Len(io.since) = 2 =>
           ppu.addr.value = (io.since[1] % 64) * 256 + io.since[2]

\* the status was read in VBlank after one address write and one scroll write
C20_Witness ==
    /\ io.fresh
    /\ io.since = <<63, 16>>
    /\ io.latches0 = <<FALSE, TRUE>>
    /\ ppu.addr.value = 16144
    /\ ppu.status = 0

----------------------------------------------------------------------------
(* Nametables *)

\* the byte that a data read with the address register at addr loads
loaded_from(addr) == read_data([ppu EXCEPT !.addr.value = addr]).ppu.internal_data_buf

\* C21: under HORIZONTAL mirroring a data write to 0x2000+k is read back at
\* 0x2400+k and one to 0x2800+k at 0x2C00+k, and vice versa; under VERTICAL
\* mirroring 0x2000+k pairs with 0x2800+k and 0x2400+k with 0x2C00+k;
\* addresses of different pairs never share a VRAM cell.
C21_NametablePairs ==
    /\ ~cpu.bus.panicked =>
           \A addr \in VramSeeks \cap 8192..12287 :
               loaded_from(addr) = cell(io.mem, VramKey(ppu.mirroring, addr))
    /\ io.op = "read" /\ io.addr0 \in 8192..12287 =>
           ppu.internal_data_buf = cell(io.mem, VramKey(ppu.mirroring, io.addr0))

\* written at 0x2005, loaded at 0x2405 and returned by the read after it,
\* with 0x2805 and 0x2C05 left alone
C21_Witness ==
    /\ ppu.mirroring = "HORIZONTAL"
    /\ io.via = 8197
    /\ io.op = "read"
    /\ io.addr0 = 9222
    /\ io.ret = Some(102)
    /\ loaded_from(10245) = 0
    /\ loaded_from(11269) = 0

\* the byte stored at a PPU address, by the writes made and the CHR ROM
stored_at(addr) ==
    CASE addr < 8192 -> cell(ChrTiles, addr)
      [] addr < 16128 -> cell(io.mem, VramKey(ppu.mirroring, addr))
      [] OTHER -> cell(io.mem, 4096 + palette_entry((addr - 16128) % PaletteSize))

\* C23: a data read with the address register in 0x0000..0x2FFF returns
\* the previous content of the internal buffer and refills it with the
\* byte at the address, so that the byte comes with the next read; a read
\* in the palette range returns the palette byte at once and leaves the
\* buffer as it was.  Every data read or write then increments the address
\* register by 1 when control bit 2 is clear and by 32 when it is set.
C23_BufferedReadsAndIncrement ==
    /\ io.op = "read" /\ io.addr0 < 12288 =>
           /\ io.ret = Some(io.buf0)
           /\ ppu.internal_data_buf = stored_at(io.addr0)
    /\ io.op = "read" /\ io.addr0 >= 16128 =>
           /\ ~cpu.bus.panicked
           /\ io.ret = Some(stored_at(io.addr0))
           /\ ppu.internal_data_buf = io.buf0
    /\ io.op \in {"read", "write"} /\ (io.addr0 < 12288 \/ io.addr0 >= 16128) =>
           ppu.addr.value = (io.addr0 + vram_addr_increment(ppu)) % 16384

\* offset = (addr & 0x2FFF) - 0x2000, nt = offset / 0x400
offset == io.addr % 4096
nt == offset \div 1024

\* C22: the nametable mapping is the function the specification states:
\* HORIZONTAL maps nt 1, nt 2 and nt 3 each to offset - 0x400, VERTICAL maps
\* nt 2 and nt 3 to offset - 0x800, every other case maps to offset.
C22_NametableMappingAsStated ==
    io.out # None =>
        io.out = Some(CASE ppu.mirroring = "HORIZONTAL" /\ nt \in {1, 2, 3} -> offset - 1024
                        [] ppu.mirroring = "VERTICAL" /\ nt \in {2, 3} -> offset - 2048
                        [] OTHER -> offset)

\* C22, as the code has it: HORIZONTAL maps nt 1 and nt 2 to offset - 0x400
\* and nt 3 to offset - 0x800, VERTICAL maps nt 2 and nt 3 to offset - 0x800,
\* every other case maps to offset; the result is an index of the 2 KiB VRAM.
C22_NametableMapping ==
    io.out # None =>
        /\ io.out = Some(CASE ppu.mirroring = "HORIZONTAL" /\ nt \in {1, 2} -> offset - 1024
                           [] ppu.mirroring = "HORIZONTAL" /\ nt = 3 -> offset - 2048
                           [] ppu.mirroring = "VERTICAL" /\ nt \in {2, 3} -> offset - 2048
                           [] OTHER -> offset)
        /\ io.out[1] \in 0..(VramSize - 1)

\* 0x2FFF under horizontal mirroring is the last byte of VRAM
C22_Witness ==
    /\ ppu.mirroring = "HORIZONTAL"
    /\ io.addr = 12287
    /\ io.out = Some(2047)

----------------------------------------------------------------------------
(* Sprite memory *)

\* C24: OAM DMA with the OAM address at a stores source byte i at
\* OAM[(a + i) mod 256] for i = 0..255 and leaves the OAM address at a; an
\* OAM data write stores at OAM[a] and moves the OAM address to
\* (a + 1) mod 256; an OAM data read leaves the OAM address alone.
C24_OamDmaAndData ==
    /\ \A i \in 0..(OamSize - 1) : cell(ppu.oam_data, i) = io.oam[i]
    /\ io.op = "dma" => ppu.oam_addr = io.a0
    /\ io.op = "write" => ppu.oam_addr = (io.a0 + 1) % 256
    /\ io.op = "read" => ppu.oam_addr = io.a0 /\ io.ret = Some(io.oam[io.a0])

\* a DMA of page 3 from OAM address 128 over an earlier DMA of page 2
C24_Witness ==
    /\ io.op = "dma"
    /\ io.a0 = 128
    /\ io.ops = 3
    /\ cell(ppu.oam_data, 128) = DmaSource(3, 0)
    /\ cell(ppu.oam_data, 127) = DmaSource(3, 255)
    /\ cell(ppu.oam_data, 0) = DmaSource(3, 128)

----------------------------------------------------------------------------
(* Fatal errors of the bus *)

\* C25: a read of a write-only PPU register or of a mirror of one, a write
\* of the PPU status register or of a mirror of it, and a write anywhere
\* in 0x8000..0xFFFF each end in the fatal error and change nothing of RAM,
\* PRG ROM or the PPU.
C25_RefusedAccessesAbort ==
    io.op \in {"read", "write"} =>
        /\ cpu.bus.panicked
        /\ [cpu.bus EXCEPT !.panicked = FALSE] = cpu0.bus

\* the scroll register read through its last mirror, with an NMI pending
C25_Witness ==
    /\ io.op = "read"
    /\ io.addr = 16381
    /\ cpu.bus.panicked
    /\ ppu.nmi_interrupt = Some(1)
    /\ cell(cpu.bus.cpu_vram, 2047) = 17

\* C26: for every address of the unmapped range 0x4018..0x7FFF a bus read
\* returns 0 and a bus write is ignored; neither changes RAM, the PPU, the
\* joypad or the cycle count, and neither is an error.
C26_UnmappedReadsZero ==
    /\ io.op \in {"unmapped read", "unmapped write"} => cpu.bus = cpu0.bus
    /\ io.op = "unmapped read" => io.ret = Some(0)

\* 0x7FFF read with a byte in RAM and an NMI pending
C26_Witness ==
    /\ io.op = "unmapped read"
    /\ io.addr = 32767
    /\ io.ret = Some(0)
    /\ ppu.nmi_interrupt = Some(1)
    /\ cell(cpu.bus.cpu_vram, 2047) = 17

----------------------------------------------------------------------------
(* Reset *)

\* C27: CPU reset, from any prior CPU state, sets A = X = Y = 0, S = 0xFD,
\* P = 0b00100100 and PC to the little-endian word at 0xFFFC, and leaves
\* CPU RAM and PPU VRAM unchanged: a byte written to RAM before the reset
\* is read back after it.
C27_ResetRegistersKeepsMemory ==
    /\ io.op = "reset" =>
        /\ cpu.register_a = 0 /\ cpu.register_x = 0 /\ cpu.register_y = 0
        /\ cpu.stack_pointer = 253
        /\ cpu.status = 36
        /\ cpu.program_counter = io.vector
        /\ cpu.bus.cpu_vram = io.before[1].bus.cpu_vram
        /\ cpu.bus.ppu.vram = io.before[1].bus.ppu.vram
        /\ ~cpu.bus.panicked
    /\ io.op = "ram read" /\ io.ram # None => io.ret = io.ram

\* a reset of a CPU whose registers were all different from their reset
\* values, with a byte in RAM and a byte in VRAM, and a read of RAM after it
C27_Witness ==
    /\ io.op = "ram read"
    /\ io.ret = Some(170)
    /\ io.before[1].register_a = 85
    /\ io.before[1].status = 227
    /\ io.before[1].stack_pointer = 0
    /\ io.vector = 49204
    /\ cell(cpu.bus.ppu.vram, 33) = 102

\* C28: reset re-initialises the PPU's scroll and address latches: after a
\* reset, from any latch state, the next write to the address register is
\* taken as the high byte and the next write to the scroll register is
\* taken as scroll X.
C28_ResetReinitialisesLatches ==
    /\ io.reset /\ Len(io.aw) = 2 =>
           cpu.bus.ppu.addr.value = (io.aw[1] % 64) * 256 + io.aw[2]
    /\ io.reset /\ Len(io.sw) >= 1 => cpu.bus.ppu.scroll.scroll_x = io.sw[1]
    /\ io.reset /\ Len(io.sw) = 2 => cpu.bus.ppu.scroll.scroll_y = io.sw[2]

----------------------------------------------------------------------------
(* The run loop *)

C30_LoadAndRunToBrk ==
    io.op = "load_and_run" /\ io.program # <<>> =>
        /\ ~cpu.bus.panicked
        /\ io.program = LdaBrk(5) =>
               /\ cpu.register_a = 5
               /\ ~get_flag(cpu, Zero)
               /\ ~get_flag(cpu, Negative)
        /\ io.program = LdaTaxInxBrk => cpu.register_x = 193
        /\ io.program = LdaZeroPageBrk /\ io.poked => cpu.register_a = 85

----------------------------------------------------------------------------
(* Sound *)

apu == cpu.bus.apu

\* C31: a bus.tick(n) advances the APU by n CPU cycles: the triangle
\* sequencer, the frame counter and the pending length-counter flush are
\* each stepped n times for a tick of n cycles, so after any sequence of
\* ticks they have been stepped as many times as bus.cycles.
C31_ApuSteppedPerCpuCycle ==
    /\ apu.triangle.tick_sequencer = cpu.bus.cycles
    /\ apu.frame_counter.tick = cpu.bus.cycles
    /\ \A c \in {"pulse_0", "pulse_1", "triangle", "noise"} :
           apu[c].update_pending_length_counter = cpu.bus.cycles

\* C32: the APU emits one sample every 40 CPU cycles: after ticks totalling
\* T CPU cycles with no drain, exactly floor(T / 40) samples have been
\* appended to the buffer, and the accumulator stays below 40.
C32_SampleEvery40Cycles ==
    /\ apu.buffer = cpu.bus.cycles \div CyclesPerSample
    /\ apu.executed_cycles < CyclesPerSample

\* C33: on every quarter-frame event the envelopes of both pulse channels
\* and of the noise channel and the triangle linear counter are clocked; on
\* every half-frame event those are clocked and also the length counters
\* and sweep units; length counters and sweeps are never clocked by a
\* quarter-only event or by a frame-counter step that yields no event.
C33_QuarterAndHalfFrames ==
    \A c \in {"pulse_0", "pulse_1", "triangle", "noise"} :
        /\ apu[c].tick_quarter_frame =
               io.before[c].tick_quarter_frame
               + (IF io.result \in {"Quarter", "Half"} THEN 1 ELSE 0)
        /\ apu[c].tick_half_frame =
               io.before[c].tick_half_frame + (IF io.result = "Half" THEN 1 ELSE 0)

----------------------------------------------------------------------------
(* The stack *)

\* C34: every stack access addresses 0x0100 + S inside page 1: a push writes
\* at 0x0100 + S and then decrements S modulo 256, a pop increments S modulo
\* 256 and then reads 0x0100 + S, so for every S (0x00 and 0xFF included) a
\* push followed by a pop returns the pushed byte and restores S, and a
\* 16-bit push followed by a 16-bit pop returns the same word.
C34_StackInPageOne ==
    /\ \A i \in DOMAIN cpu.trace : cpu.trace[i].addr \in 256..511
    /\ io.op = "push" =>
        /\ cpu.trace = <<Ev("write", 256 + io.s0, io.data[1])>>
        /\ cpu.stack_pointer = (io.s0 + 255) % 256
    /\ io.op = "pop" =>
        /\ cpu.trace = <<Ev("read", 256 + ((io.s0 + 1) % 256), io.ret[1])>>
        /\ cpu.stack_pointer = (io.s0 + 1) % 256
    /\ io.op = "pop" /\ io.prev.op = "push" =>
        /\ io.ret = io.prev.data
        /\ cpu.stack_pointer = io.prev.s0
    /\ io.op = "pop_u16" /\ io.prev.op = "push_u16" =>
        /\ io.ret = io.prev.data
        /\ cpu.stack_pointer = io.prev.s0

\* a 16-bit push at S = 0x00 (which wraps to 0xFF between its two bytes)
\* followed by a 16-bit pop: the word went to 0x0100 and 0x01FF
C34_Witness ==
    /\ io.op = "pop_u16"
    /\ io.prev.op = "push_u16"
    /\ io.prev.s0 = 0
    /\ io.ret = Some(4660)
    /\ cell(cpu.bus.cpu_vram, 256) = 18
    /\ cell(cpu.bus.cpu_vram, 511) = 52

----------------------------------------------------------------------------
(* Jumps *)

\* C35: after JMP absolute (0x4C) or JSR (0x20) with operand word W, the PC
\* at the start of the next instruction equals W for every W, including a W
\* equal to the address of the instruction's own first operand byte.
C35_JumpSetsPC ==
    executed({76, 32}) => cpu.program_counter = word_at(site + 1)

----------------------------------------------------------------------------
(* Unofficial instructions *)

\* the registers, the flags and the memory of two CPUs are the same
same_effect(a, b) ==
    /\ a.register_a = b.register_a
    /\ a.register_x = b.register_x
    /\ a.register_y = b.register_y
    /\ a.status = b.status
    /\ a.stack_pointer = b.stack_pointer
    /\ a.program_counter = b.program_counter
    /\ a.bus.cpu_vram = b.bus.cpu_vram
    /\ a.bus.panicked = b.bus.panicked

\* C36: for every A, carry flag and memory operand M, the unofficial RLA
\* instruction leaves exactly the same A, status flags (N, Z, C) and memory
\* as executing ROL on the operand followed by AND with the same operand.
C36_RlaIsRolThenAnd ==
    io.op = "rla" =>
        same_effect(cpu, and(rol(io.before[1], io.mode), io.mode))

\* C37: for every A, X, status and memory operand M, each of SLO, SRE, RRA,
\* DCP and ISB leaves exactly the same A, status flags and memory as the
\* corresponding official pair executed on the same operand (ASL then ORA,
\* LSR then EOR, ROR then ADC, DEC then CMP, INC then SBC); LAX loads M into
\* both A and X with N/Z from M, and SAX stores A & X without changing any
\* flag.
C37_UnofficialPairs ==
    /\ io.op = "slo" => same_effect(cpu, ora(asl(io.before[1], io.mode), io.mode))
    /\ io.op = "sre" => same_effect(cpu, eor(lsr(io.before[1], io.mode), io.mode))
    /\ io.op = "rra" => same_effect(cpu, adc(ror(io.before[1], io.mode), io.mode))
    /\ io.op = "dcp" => same_effect(cpu, cmp(dec(io.before[1], io.mode), io.mode))
    /\ io.op = "isb" => same_effect(cpu, sbc(inc(io.before[1], io.mode), io.mode))
    /\ io.op = "lax" =>
        /\ cpu.register_a = io.m
        /\ cpu.register_x = io.m
        /\ get_flag(cpu, Zero) = (io.m = 0)
        /\ get_flag(cpu, Negative) = (io.m >= 128)
        /\ \A f \in {Carry, InterruptDisable, DecimalMode, Break, Break2, Overflow} :
               get_flag(cpu, f) = get_flag(io.before[1], f)
        /\ cpu.bus.cpu_vram = io.before[1].bus.cpu_vram
    /\ io.op = "sax" =>
        /\ cell(cpu.bus.cpu_vram, OperandAddress(io.mode))
               = BitAnd(io.before[1].register_a, io.before[1].register_x)
        /\ cpu.status = io.before[1].status
        /\ cpu.register_a = io.before[1].register_a
        /\ cpu.register_x = io.before[1].register_x

\* an RRA whose rotation carries out of bit 0 into the addition, which
\* overflows: A = 0x7F, M = 0x03, carry set: M becomes 0x81 and A 0x01
C37_Witness ==
    /\ io.op = "rra"
    /\ io.m = 3
    /\ io.before[1].register_a = 127
    /\ io.before[1].status = 37
    /\ cell(cpu.bus.cpu_vram, OperandAddress(io.mode)) = 129
    /\ cpu.register_a = 1
    /\ get_flag(cpu, Carry)

----------------------------------------------------------------------------
(* The envelope *)

----------------------------------------------------------------------------
(* The source of OAM DMA *)

\* the pages with an address that a read refuses: 0x20..0x3F (0x2000 and
\* its mirrors) and 0x40 (0x4014)
read_fatal(page) == page \in 32..64

\* C39: a write of v to 0x4014 copies the 256 bytes obtained by bus reads of
\* v<<8 .. (v<<8)+0xFF into OAM and leaves CPU RAM and the bus cycle count
\* unchanged; a DMA whose source page contains a read-fatal address (v in
\* 0x20..0x3F, which reads 0x2000, or v = 0x40, which reads 0x4014) ends in
\* the fatal error instead of completing.
C39_DmaReadsThroughBus ==
    io.op = "dma" =>
        /\ cpu.bus.cpu_vram = io.before.cpu_vram
        /\ cpu.bus.cycles = io.before.cycles
        /\ cpu.bus.panicked = read_fatal(io.page)
        /\ read_fatal(io.page) => cpu.bus.ppu = io.before.ppu
        /\ ~read_fatal(io.page) =>
            /\ cpu.bus.ppu.oam_addr = io.before.ppu.oam_addr
            /\ \A i \in 0..255 :
                   cell(cpu.bus.ppu.oam_data, (io.before.ppu.oam_addr + i) % 256)
                       = Bus_mem_read(io.before, io.page * 256 + i).ret
            /\ io.page \in {2, 10} =>
                   cell(cpu.bus.ppu.oam_data, (io.before.ppu.oam_addr + 7) % 256)
                       = DmaSource(2, 7)
            /\ io.page = 128 =>
                   cell(cpu.bus.ppu.oam_data, (io.before.ppu.oam_addr + 7) % 256)
                       = DmaRomByte(7)
            /\ io.page = 80 =>
                   cell(cpu.bus.ppu.oam_data, (io.before.ppu.oam_addr + 7) % 256) = 0

\* a DMA of page 0x40 ends in the fatal error, after a DMA of PRG ROM page
\* 0x80 from OAM address 128 that completed
C39_Witness ==
    /\ io.op = "dma"
    /\ io.page = 64
    /\ cpu.bus.panicked
    /\ io.ops = 3
    /\ cpu.bus.ppu.oam_addr = 128
    /\ cell(cpu.bus.ppu.oam_data, 128) = DmaRomByte(0)
    /\ cell(cpu.bus.ppu.oam_data, 127) = DmaRomByte(255)

(* The mask flags *)

\* C40: after write_to_mask(v), get_mask(f) is true exactly when v has bit f
\* set, whatever the control register holds; set_mask changes only the mask
\* register and never the control register
C40_MaskAccessorsUseMask ==
    /\ io.op = "mask" =>
        \A f \in MaskFlags : get_mask(cpu.bus.ppu, f) = has_bit(io.value, f)
    /\ io.op = "set" =>
        /\ cpu.bus.ppu.ctrl = io.before.ctrl
        /\ cpu.bus.ppu = [io.before EXCEPT !.mask = cpu.bus.ppu.mask]

====
